---- MODULE Spec2Model ----
(***************************************************************************)
(* The record registry of xtrade: bots, their listeners, and the state     *)
(* file the registry is persisted to.                                      *)
(*                                                                         *)
(* Spec        the current registry (bot/state/registry.rs) over the       *)
(*             persistence adapter of state/state.rs, one action per       *)
(*             registry operation, each operation one atomic step.         *)
(* SpecLegacy  the earlier revisions kept in the crate (services/,         *)
(*             app_state.rs, api/), one action per operation.              *)
(* SpecConc    the REST handlers of bot/api/endpoints.rs serving           *)
(*             concurrent requests, one action per step of a handler.      *)
(* SpecFacade  one command given to the offline and to the online command  *)
(*             line (local_client.rs, remote_client.rs, rest.rs), POST     *)
(*             /bots, and the status codes of error answers (errors/).     *)
(* SpecQuery   the listing operations and GET handlers of every revision,  *)
(*             applied to registries of up to two bots.                    *)
(* SpecPage    GET /bots with a pagination query, both handlers.           *)
(* SpecServe   the handlers of SpecConc and get_bots of api/bots serving   *)
(*             requests that carry a page, under weak fairness of every    *)
(*             started handler.                                            *)
(* SpecScenario  one client creating a bot, adding a listener, listing,    *)
(*             deleting the bot and asking for it, over bot/api.           *)
(* SpecListeners  adding, updating and deleting a listener and updating a  *)
(*             bot with a listener map, in the registry, bot/state/mod.rs  *)
(*             and services/listeners.rs.                                  *)
(* SpecLoad    start-up: the loaders of state/state.rs and state.rs on the *)
(*             state file as found, server_mode, and a first add_bot.      *)
(* SpecRemote  RestClient::add_bot over a connection that can fail, with   *)
(*             weak fairness of the awaiting call.                         *)
(***************************************************************************)
EXTENDS FiniteSets, Integers, Sequences, TLC

VARIABLES
    bots,       \* AppState.bots: HashMap<String, Bot>, the in-memory registry
    disk,       \* the content of the state file
    ret,        \* what the last operation was given and what it returned
    failures,   \* number of state writes that have failed so far
    lock,       \* the Mutex around AppState: Free, the request holding the guard,
                \* or "poisoned" (free after a panic under the guard)
    cl,         \* per HTTP request in flight: where its handler stands
    start       \* the registry the server started with

vars == <<bots, disk, ret, failures, lock, cl, start>>

-----------------------------------------------------------------------------
(* Bounds and input universes *)

\* How many saves the environment may fail in one behaviour.
MaxSaveFailures == 1

BotIds == {"a", "b"}
ListenerIds == {"l1", "l2"}

\* Option<T>: None is the empty sequence, Some(v) the one-element sequence.
None == << >>
Some(v) == <<v>>
IsSome(o) == o # None
Unwrap(o) == o[1]

\* HashMap helpers.
EmptyMap == << >>
Insert(m, k, v) == [x \in (DOMAIN m) \cup {k} |-> IF x = k THEN v ELSE m[x]]
Remove(m, k) == [x \in (DOMAIN m) \ {k} |-> m[x]]

-----------------------------------------------------------------------------
(* Entity model *)

\* impl From<BotInsertArgs> for Bot: the id is the supplied one or a fresh
\* UUID (gen), every other field is copied, the listener map starts empty.
BotFromInsertArgs_with_listener(args, gen) ==
    [bot_id           |-> IF IsSome(args.bot_id) THEN Unwrap(args.bot_id) ELSE gen,
     name             |-> args.name,
     exchange         |-> args.exchange,
     api_key          |-> args.api_key,
     api_secret       |-> args.api_secret,
     rest_endpoint    |-> args.rest_endpoint,
     rpc_endpoint     |-> args.rpc_endpoint,
     webhook_secret   |-> args.webhook_secret,
     trading_fee      |-> args.trading_fee,
     private_key      |-> args.private_key,
     contract_address |-> args.contract_address,
     listeners        |-> [l \in {"l1"} |-> [service |-> "tv", secret |-> "", msg |-> ""]]]

BotFromInsertArgs(args, gen) ==
    [bot_id           |-> IF IsSome(args.bot_id) THEN Unwrap(args.bot_id) ELSE gen,
     name             |-> args.name,
     exchange         |-> args.exchange,
     api_key          |-> args.api_key,
     api_secret       |-> args.api_secret,
     rest_endpoint    |-> args.rest_endpoint,
     rpc_endpoint     |-> args.rpc_endpoint,
     webhook_secret   |-> args.webhook_secret,
     trading_fee      |-> args.trading_fee,
     private_key      |-> args.private_key,
     contract_address |-> args.contract_address,
     listeners        |-> EmptyMap]

\* impl From<Bot> for BotView: every field is copied, the listeners as they are.
BotViewFrom(bot) == bot

\* impl From<(B, L, &Listener)> for ListenerView.
ListenerViewFrom(bot_id, listener_id, listener) ==
    [bot_id      |-> bot_id,
     listener_id |-> listener_id,
     service     |-> Some(listener.service),
     secret      |-> Some(listener.secret),
     msg         |-> Some(listener.msg)]

\* The Err side of a Result carries no view.
NoView == [none |-> TRUE]

-----------------------------------------------------------------------------
(* Persistence adapter: the state file *)

\* A JSON object is a function from its keys to its values.
EmptyObject == << >>

\* #[derive(Serialize)] for Listener: all three fields are written.
ListenerToJson(l) == [service |-> l.service, secret |-> l.secret, msg |-> l.msg]

\* #[derive(Serialize)] for Bot: every field is written, credentials included.
\* A non-finite f64 (what `--trading-fee inf` parses to), as a fee value.
f64_INFINITY == 99

\* Bot as serde_json writes it (a non-finite float is written as null).
BotToJson(b) ==
    [bot_id           |-> b.bot_id,
     name             |-> b.name,
     exchange         |-> b.exchange,
     api_key          |-> b.api_key,
     api_secret       |-> b.api_secret,
     rest_endpoint    |-> b.rest_endpoint,
     rpc_endpoint     |-> b.rpc_endpoint,
     webhook_secret   |-> b.webhook_secret,
     trading_fee      |-> IF b.trading_fee = Some(f64_INFINITY) THEN None
                          ELSE b.trading_fee,
     private_key      |-> b.private_key,
     contract_address |-> b.contract_address,
     listeners        |-> [l \in DOMAIN b.listeners |-> ListenerToJson(b.listeners[l])]]

\* serde_json::to_string_pretty(self): the document {"bots": {id: bot, ...}}.
to_string_pretty(state_bots) ==
    [k \in {"bots"} |-> [id \in DOMAIN state_bots |-> BotToJson(state_bots[id])]]

\* #[derive(Deserialize)] for Listener and Bot.
ListenerFromJson(j) == [service |-> j.service, secret |-> j.secret, msg |-> j.msg]

BotFromJson(j) ==
    [bot_id           |-> j.bot_id,
     name             |-> j.name,
     exchange         |-> j.exchange,
     api_key          |-> j.api_key,
     api_secret       |-> j.api_secret,
     rest_endpoint    |-> j.rest_endpoint,
     rpc_endpoint     |-> j.rpc_endpoint,
     webhook_secret   |-> j.webhook_secret,
     trading_fee      |-> j.trading_fee,
     private_key      |-> j.private_key,
     contract_address |-> j.contract_address,
     listeners        |-> [l \in DOMAIN j.listeners |-> ListenerFromJson(j.listeners[l])]]

\* #[derive(Serialize)] for BotView: the four fields marked skip_serializing
\* are left out; listeners is written with Listener's own Serialize.
BotViewToJson(v) ==
    [bot_id           |-> v.bot_id,
     name             |-> v.name,
     exchange         |-> v.exchange,
     rest_endpoint    |-> v.rest_endpoint,
     rpc_endpoint     |-> v.rpc_endpoint,
     trading_fee      |-> v.trading_fee,
     contract_address |-> v.contract_address,
     listeners        |-> [l \in DOMAIN v.listeners |-> ListenerToJson(v.listeners[l])]]

\* #[derive(Serialize)] for ListenerView: secret is marked skip_serializing.
ListenerViewToJson(v) ==
    [bot_id |-> v.bot_id, listener_id |-> v.listener_id, service |-> v.service,
     msg |-> v.msg]

\* The state file: absent, or a text that is a complete document or only the
\* beginning of one.
FileMissing == [kind |-> "missing", doc |-> EmptyObject]
FileText(doc) == [kind |-> "text", doc |-> doc]
FilePartial == [kind |-> "partial", doc |-> EmptyObject]

\* serde_json::from_str::<AppState>: a text that stops before its end does not
\* parse; a document without "bots" gives the default, empty registry.
from_str(file) ==
    IF file.kind # "text" THEN [ok |-> FALSE, bots |-> EmptyMap]
    ELSE IF "bots" \in DOMAIN file.doc
    THEN [ok |-> TRUE,
          bots |-> [id \in DOMAIN file.doc["bots"] |-> BotFromJson(file.doc["bots"][id])]]
    ELSE [ok |-> TRUE, bots |-> EmptyMap]

\* AppState::load: a missing file is created as "{}" and the default state is
\* returned; otherwise the file is read and parsed.
load(file) ==
    IF file.kind = "missing"
    THEN [kind |-> "Ok", bots |-> EmptyMap, file |-> FileText(EmptyObject)]
    ELSE IF from_str(file).ok
         THEN [kind |-> "Ok", bots |-> from_str(file).bots, file |-> file]
         ELSE [kind |-> "JsonParseError", bots |-> EmptyMap, file |-> file]

\* The ways one call of AppState::save can end:
\*   ok          the config was saved and fs::write wrote the whole text
\*   config_err  self.config.save failed; the state file was not opened
\*   open_err    fs::write could not create/open the file
\*   write_err   fs::write truncated the file and failed before the end
SaveOutcomes == {"ok", "config_err", "open_err", "write_err"}

\* fs::write(&state_file, state_json): create-and-truncate, then write_all.
fs_write(file, doc, out) ==
    CASE out = "ok"        -> FileText(doc)
      [] out = "write_err" -> FilePartial
      [] OTHER             -> file

\* AppState::save(None): the file after the call.
save(file, state_bots, out) ==
    IF out = "config_err" THEN file
    ELSE fs_write(file, to_string_pretty(state_bots), out)

-----------------------------------------------------------------------------
(* The registry, bot/state/registry.rs.  Each operation is written as the   *)
(* effect of its body up to the call of save: the result it is heading for, *)
(* the map it leaves in memory, and whether it goes on to save.             *)

Outcome(kind, m, sv, view) == [kind |-> kind, bots |-> m, save |-> sv, view |-> view]

\* BotUpdateArgs::apply: a supplied field replaces the stored one, an absent
\* field leaves it; a non-empty listener map replaces the bot's listeners.
BotUpdateArgs_apply(args, bot) ==
    [bot_id           |-> bot.bot_id,
     name             |-> IF IsSome(args.name) THEN Unwrap(args.name) ELSE bot.name,
     exchange         |-> IF IsSome(args.exchange) THEN Unwrap(args.exchange)
                          ELSE bot.exchange,
     api_key          |-> IF IsSome(args.api_key) THEN args.api_key ELSE bot.api_key,
     api_secret       |-> IF IsSome(args.api_secret) THEN args.api_secret
                          ELSE bot.api_secret,
     rest_endpoint    |-> IF IsSome(args.rest_endpoint) THEN args.rest_endpoint
                          ELSE bot.rest_endpoint,
     rpc_endpoint     |-> IF IsSome(args.rpc_endpoint) THEN args.rpc_endpoint
                          ELSE bot.rpc_endpoint,
     webhook_secret   |-> IF IsSome(args.webhook_secret) THEN args.webhook_secret
                          ELSE bot.webhook_secret,
     trading_fee      |-> IF IsSome(args.trading_fee) THEN args.trading_fee
                          ELSE bot.trading_fee,
     private_key      |-> IF IsSome(args.private_key) THEN args.private_key
                          ELSE bot.private_key,
     contract_address |-> IF IsSome(args.contract_address) THEN args.contract_address
                          ELSE bot.contract_address,
     listeners        |-> IF DOMAIN args.listeners # {} THEN args.listeners
                          ELSE bot.listeners]

\* ListenerUpdateArgs::apply.
ListenerUpdateArgs_apply(args, listener) ==
    [service |-> IF IsSome(args.service) THEN Unwrap(args.service) ELSE listener.service,
     secret  |-> IF IsSome(args.secret) THEN Unwrap(args.secret) ELSE listener.secret,
     msg     |-> IF IsSome(args.msg) THEN Unwrap(args.msg) ELSE listener.msg]

\* ListenerListArgs::matches, the filter of the bulk listener operations.
ListenerMatches(args, listener_id, listener) ==
    /\ (IsSome(args.listener_id) => Unwrap(args.listener_id) = listener_id)
    /\ (IsSome(args.service) => Unwrap(args.service) = listener.service)

add_bot_unchecked(m, args, gen) ==
    LET bot == BotFromInsertArgs(args, gen) IN
    Outcome("Ok", Insert(m, bot.bot_id, bot), TRUE, BotViewFrom(bot))

add_bot(m, args, gen) ==
    LET bot == BotFromInsertArgs(args, gen) IN
    IF bot.bot_id \in DOMAIN m
    THEN Outcome("BotAlreadyExists", m, FALSE, NoView)
    ELSE Outcome("Ok", Insert(m, bot.bot_id, bot), TRUE, BotViewFrom(bot))

get_bot(m, args) ==
    IF args.bot_id \in DOMAIN m
    THEN Outcome("Ok", m, FALSE, BotViewFrom(m[args.bot_id]))
    ELSE Outcome("BotNotFound", m, FALSE, NoView)

update_bot(m, args) ==
    IF args.bot_id \notin DOMAIN m
    THEN Outcome("BotNotFound", m, FALSE, NoView)
    ELSE LET bot == BotUpdateArgs_apply(args, m[args.bot_id]) IN
         Outcome("Ok", Insert(m, args.bot_id, bot), TRUE, BotViewFrom(bot))

\* A removal that takes the bot's listeners away one at a time and the bot
\* itself only once it has none left.
delete_bot_stepwise(m, args) ==
    IF args.bot_id \notin DOMAIN m
    THEN Outcome("BotNotFound", m, FALSE, NoView)
    ELSE IF DOMAIN m[args.bot_id].listeners = {}
    THEN Outcome("Ok", Remove(m, args.bot_id), TRUE, BotViewFrom(m[args.bot_id]))
    ELSE LET bot == m[args.bot_id]
             l   == CHOOSE x \in DOMAIN bot.listeners : TRUE
         IN  Outcome("Ok",
                     Insert(m, args.bot_id, [bot EXCEPT !.listeners = Remove(@, l)]),
                     TRUE, BotViewFrom(bot))

delete_bot(m, args) ==
    IF args.bot_id \notin DOMAIN m
    THEN Outcome("BotNotFound", m, FALSE, NoView)
    ELSE Outcome("Ok", Remove(m, args.bot_id), TRUE, BotViewFrom(m[args.bot_id]))

add_listener(m, args, gen) ==
    IF args.bot_id \notin DOMAIN m
    THEN Outcome("BotNotFound", m, FALSE, NoView)
    ELSE LET bot         == m[args.bot_id]
             listener_id == IF IsSome(args.listener_id) THEN Unwrap(args.listener_id)
                            ELSE gen
             listener    == [service |-> args.service,
                             secret  |-> IF IsSome(args.secret) THEN Unwrap(args.secret)
                                         ELSE "",
                             msg     |-> IF IsSome(args.msg) THEN Unwrap(args.msg)
                                         ELSE ""]
             bot2        == [bot EXCEPT !.listeners = Insert(@, listener_id, listener)]
         IN  Outcome("Ok", Insert(m, args.bot_id, bot2), TRUE,
                     ListenerViewFrom(args.bot_id, listener_id, listener))

get_listener(m, args) ==
    IF args.bot_id \notin DOMAIN m
    THEN Outcome("BotNotFound", m, FALSE, NoView)
    ELSE IF args.listener_id \notin DOMAIN m[args.bot_id].listeners
    THEN Outcome("NotFound", m, FALSE, NoView)
    ELSE Outcome("Ok", m, FALSE,
                 ListenerViewFrom(args.bot_id, args.listener_id,
                                  m[args.bot_id].listeners[args.listener_id]))

\* get_listener_mut reports a missing listener as BotNotFound.
update_listener(m, args) ==
    IF args.bot_id \notin DOMAIN m
    THEN Outcome("BotNotFound", m, FALSE, NoView)
    ELSE IF args.listener_id \notin DOMAIN m[args.bot_id].listeners
    THEN Outcome("BotNotFound", m, FALSE, NoView)
    ELSE LET bot      == m[args.bot_id]
             listener == ListenerUpdateArgs_apply(args, bot.listeners[args.listener_id])
             bot2     == [bot EXCEPT !.listeners = Insert(@, args.listener_id, listener)]
         IN  Outcome("Ok", Insert(m, args.bot_id, bot2), TRUE,
                     ListenerViewFrom(args.bot_id, args.listener_id, listener))

\* delete_listener returns without calling save.
delete_listener(m, args) ==
    IF args.bot_id \notin DOMAIN m
    THEN Outcome("BotNotFound", m, FALSE, NoView)
    ELSE IF args.listener_id \notin DOMAIN m[args.bot_id].listeners
    THEN Outcome("ListenerNotFound", m, FALSE, NoView)
    ELSE LET bot  == m[args.bot_id]
             bot2 == [bot EXCEPT !.listeners = Remove(@, args.listener_id)]
         IN  Outcome("Ok", Insert(m, args.bot_id, bot2), FALSE,
                     ListenerViewFrom(args.bot_id, args.listener_id,
                                      bot.listeners[args.listener_id]))

\* A bulk removal that, once any listener matches, empties the bot.
delete_listeners_all(m, args) ==
    IF args.bot_id \notin DOMAIN m
    THEN Outcome("BotNotFound", m, FALSE, NoView)
    ELSE LET bot     == m[args.bot_id]
             deleted == {l \in DOMAIN bot.listeners :
                            ListenerMatches(args, l, bot.listeners[l])}
         IN  IF deleted = {}
             THEN Outcome("ListenerNotFound", m, FALSE, NoView)
             ELSE Outcome("Ok",
                          Insert(m, args.bot_id, [bot EXCEPT !.listeners = EmptyMap]),
                          TRUE,
                          [list |-> {ListenerViewFrom(args.bot_id, l, bot.listeners[l]) :
                                       l \in deleted}])

\* delete_listeners: the view is the collection of the removed listeners.
delete_listeners(m, args) ==
    IF args.bot_id \notin DOMAIN m
    THEN Outcome("BotNotFound", m, FALSE, NoView)
    ELSE LET bot     == m[args.bot_id]
             deleted == {l \in DOMAIN bot.listeners :
                            ListenerMatches(args, l, bot.listeners[l])}
             bot2    == [bot EXCEPT !.listeners =
                            [l \in (DOMAIN bot.listeners) \ deleted |-> bot.listeners[l]]]
         IN  IF deleted = {}
             THEN Outcome("ListenerNotFound", m, FALSE, NoView)
             ELSE Outcome("Ok", Insert(m, args.bot_id, bot2), TRUE,
                          [list |-> {ListenerViewFrom(args.bot_id, l, bot.listeners[l]) :
                                       l \in deleted}])

clear_bots(m) == Outcome("Ok", EmptyMap, TRUE, NoView)

clear_listeners(m) ==
    Outcome("Ok", [id \in DOMAIN m |-> [m[id] EXCEPT !.listeners = EmptyMap]], TRUE, NoView)

-----------------------------------------------------------------------------
(* Inputs of the operations *)

\* A request that supplies every field, and one that supplies only the
\* required ones.
FullInsertArgs(id) ==
    [bot_id |-> id, name |-> "n1", exchange |-> "x1",
     api_key |-> Some("k1"), api_secret |-> Some("s1"),
     rest_endpoint |-> Some("r1"), rpc_endpoint |-> Some("p1"),
     webhook_secret |-> Some("w1"), trading_fee |-> Some(1),
     private_key |-> Some("v1"), contract_address |-> Some("c1")]
MinInsertArgs(id) ==
    [bot_id |-> id, name |-> "n2", exchange |-> "x2",
     api_key |-> None, api_secret |-> None,
     rest_endpoint |-> None, rpc_endpoint |-> None,
     webhook_secret |-> None, trading_fee |-> None,
     private_key |-> None, contract_address |-> None]
BotInsertArgsSet ==
    {FullInsertArgs(Some("a")), MinInsertArgs(Some("a")),
     MinInsertArgs(Some("b")), MinInsertArgs(None)}

\* A partial update, built on BotUpdateArgs::new: it renames the bot and sets
\* its webhook secret.
BotUpdateArgsSet ==
    {[bot_id |-> "a", name |-> Some("n3"), exchange |-> None,
      api_key |-> None, api_secret |-> None,
      rest_endpoint |-> None, rpc_endpoint |-> None,
      webhook_secret |-> Some("w2"), trading_fee |-> None,
      private_key |-> None, contract_address |-> None, listeners |-> EmptyMap]}

BotGetArgsSet == {[bot_id |-> id] : id \in BotIds}

ListenerInsertArgsSet ==
    {[bot_id |-> id, listener_id |-> Some("l1"), service |-> "tv",
      secret |-> None, msg |-> None] : id \in BotIds}
    \cup {[bot_id |-> "a", listener_id |-> Some("l1"), service |-> "tg",
           secret |-> Some("s"), msg |-> Some("m")],
          [bot_id |-> "a", listener_id |-> None, service |-> "tv",
           secret |-> None, msg |-> None]}

ListenerGetArgsSet ==
    {[bot_id |-> "a", listener_id |-> l] : l \in ListenerIds}
    \cup {[bot_id |-> "b", listener_id |-> "l1"]}



\* Uuid::new_v4(): an identifier no record of the map carries.
FreshIds(universe, m) == universe \ DOMAIN m

-----------------------------------------------------------------------------
(* One call of a registry operation *)

\* The operation leaves r.bots in memory.  If its body reaches save, save ends
\* in one of its outcomes, and anything but "ok" is returned as the error of
\* the operation; otherwise the file is not touched.
Step(op, args, r, out) ==
    /\ bots' = r.bots
    /\ UNCHANGED <<lock, cl, start>>
    /\ IF r.save
       THEN /\ out \in SaveOutcomes
            /\ (out # "ok") => failures < MaxSaveFailures
            /\ disk' = save(disk, r.bots, out)
            /\ failures' = IF out = "ok" THEN failures ELSE failures + 1
            /\ ret' = [op |-> op, args |-> args, out |-> out,
                       kind |-> IF out = "ok" THEN r.kind ELSE "SaveError",
                       view |-> IF out = "ok" THEN r.view ELSE NoView]
       ELSE /\ out = "none"
            /\ UNCHANGED <<disk, failures>>
            /\ ret' = [op |-> op, args |-> args, out |-> out,
                       kind |-> r.kind, view |-> r.view]

Outs == SaveOutcomes \cup {"none"}

\* The requests the server is serving, and a handler that has not started.
Clients == {"c1", "c2"}
Free == "free"
Idle == [pc |-> "idle", req |-> NoView, busy |-> FALSE, found |-> NoView,
         out |-> "none", resp |-> NoView]

NoRet == [op |-> "load", args |-> NoView, out |-> "none", kind |-> "Ok", view |-> NoView]

Init ==
    /\ bots = EmptyMap
    /\ disk = load(FileMissing).file
    /\ ret = NoRet
    /\ failures = 0
    /\ lock = Free
    /\ cl = [c \in Clients |-> Idle]
    /\ start = EmptyMap

AddBot ==
    \E args \in BotInsertArgsSet, out \in Outs :
        \E gen \in (IF IsSome(args.bot_id) THEN {"-"} ELSE FreshIds(BotIds, bots)) :
            Step("add_bot", args, add_bot(bots, args, gen), out)

GetBot ==
    \E args \in BotGetArgsSet, out \in Outs :
        Step("get_bot", args, get_bot(bots, args), out)

UpdateBot ==
    \E args \in BotUpdateArgsSet, out \in Outs :
        Step("update_bot", args, update_bot(bots, args), out)

DeleteBot ==
    \E args \in BotGetArgsSet, out \in Outs :
        Step("delete_bot", args, delete_bot(bots, args), out)

AddListener ==
    \E args \in ListenerInsertArgsSet, out \in Outs :
        \E gen \in (IF IsSome(args.listener_id) \/ args.bot_id \notin DOMAIN bots
                     THEN {"-"} ELSE FreshIds(ListenerIds, bots[args.bot_id].listeners)) :
            Step("add_listener", args, add_listener(bots, args, gen), out)

GetListener ==
    \E args \in ListenerGetArgsSet, out \in Outs :
        Step("get_listener", args, get_listener(bots, args), out)

UpdateListener ==
    \E args \in {[bot_id |-> "a", listener_id |-> "l1", service |-> Some("tg"), secret |-> None,
                 msg |-> None]}, out \in Outs :
        Step("update_listener", args, update_listener(bots, args), out)

DeleteListener ==
    \E args \in ListenerGetArgsSet, out \in Outs :
        Step("delete_listener", args, delete_listener(bots, args), out)

DeleteListeners ==
    \E args \in {[bot_id |-> "a", listener_id |-> None, service |-> sv] : sv \in {None, Some("tv")}}, out \in Outs :
        Step("delete_listeners", args, delete_listeners(bots, args), out)

ClearBots == \E out \in Outs : Step("clear_bots", NoView, clear_bots(bots), out)

ClearListeners ==
    \E out \in Outs : Step("clear_listeners", NoView, clear_listeners(bots), out)

Next ==
    \/ AddBot
    \/ GetBot
    \/ UpdateBot
    \/ DeleteBot
    \/ AddListener
    \/ GetListener
    \/ UpdateListener
    \/ DeleteListener
    \/ DeleteListeners
    \/ ClearBots
    \/ ClearListeners

Spec == Init /\ [][Next]_vars

-----------------------------------------------------------------------------
(* The earlier revisions of the registry that are still part of the crate:  *)
(* the map helpers of services/bots.rs, AppState of app_state.rs, and the    *)
(* HTTP handlers of api/ that work on the map directly.                      *)

\* services::create_bot: bots.insert(bot_id, bot); the id is returned.
services_create_bot(m, bot) ==
    Outcome("Ok", Insert(m, bot.bot_id, bot), FALSE, [bot_id |-> bot.bot_id])

\* BotInsert's derived validate(): name and exchange of length >= 1.
BotInsert_validate(args) == args.name # "" /\ args.exchange # ""

\* AppState::insert_bot (app_state.rs).
insert_bot(m, bot) ==
    IF bot.bot_id \in DOMAIN m
    THEN Outcome("BotAlreadyExists", m, FALSE, NoView)
    ELSE Outcome("Ok", Insert(m, bot.bot_id, bot), TRUE, bot)

\* AppState::create_bot (app_state.rs): validate, build the Bot, insert_bot.
create_bot(m, args, gen) ==
    IF ~BotInsert_validate(args)
    THEN Outcome("InvalidInput", m, FALSE, NoView)
    ELSE insert_bot(m, BotFromInsertArgs(args, gen))

\* AppState::args (app_state.rs), the update of a bot from a BotUpdate:
\* unwrap_or / or over every field it names; webhook_secret is not among them.
AppState_args(m, args) ==
    IF args.bot_id \notin DOMAIN m
    THEN Outcome("BotNotFound", m, FALSE, NoView)
    ELSE LET bot  == m[args.bot_id]
             Or(a, b) == IF IsSome(a) THEN a ELSE b
             bot2 == [bot EXCEPT
                        !.name = IF IsSome(args.name) THEN Unwrap(args.name) ELSE @,
                        !.exchange = IF IsSome(args.exchange) THEN Unwrap(args.exchange)
                                     ELSE @,
                        !.api_key = Or(args.api_key, @),
                        !.api_secret = Or(args.api_secret, @),
                        !.rest_endpoint = Or(args.rest_endpoint, @),
                        !.rpc_endpoint = Or(args.rpc_endpoint, @),
                        !.trading_fee = Or(args.trading_fee, @),
                        !.private_key = Or(args.private_key, @),
                        !.contract_address = Or(args.contract_address, @)]
         IN  Outcome("Ok", Insert(m, args.bot_id, bot2), TRUE, bot2)

\* Listener::generate_message(service, bot_id): the default message of a
\* listener, a template chosen by the service; the TradingView one carries
\* the bot id.
generate_message(service, bot_id) ==
    CASE service = "tv" -> IF bot_id = "a" THEN "tradingview a" ELSE "tradingview b"
      [] service = "tg" -> "telegram"
      [] OTHER          -> "alert"

\* DELETE /bots/{bot_id} of api/bots/endpoints.rs, up to save_state_to_file.
api_delete_bot(m, args) ==
    IF args.bot_id \in DOMAIN m
    THEN Outcome("Ok", Remove(m, args.bot_id), TRUE, [body |-> "Bot deleted successfully"])
    ELSE Outcome("BotNotFound", m, FALSE, NoView)

\* POST /bots/{bot_id}/listeners of api/listeners/endpoints.rs, up to
\* save_state_to_file: the listener gets a fresh id and is appended.
api_add_listener(m, args, gen) ==
    IF args.bot_id \in DOMAIN m
    THEN LET bot      == m[args.bot_id]
             listener == [service |-> args.service,
                          secret  |-> args.secret,
                          msg     |-> IF IsSome(args.msg) THEN Unwrap(args.msg)
                                      ELSE generate_message(args.service, args.bot_id)]
             bot2     == [bot EXCEPT !.listeners = Insert(@, gen, listener)]
         IN  Outcome("Ok", Insert(m, args.bot_id, bot2), TRUE,
                     [body |-> "Listener added successfully"])
    ELSE Outcome("BotNotFound", m, FALSE, NoView)

\* AppState::save_state_to_file(path): writes the state; a failure is logged
\* and the call returns normally.
save_state_to_file(file, state_bots, out) ==
    fs_write(file, to_string_pretty(state_bots), out)

\* One call of an operation of these revisions.  ignored says that the caller
\* drops the result of the write (the handlers that call save_state_to_file).
LegacyStep(op, args, r, out, ignored) ==
    /\ bots' = r.bots
    /\ UNCHANGED <<lock, cl, start>>
    /\ IF r.save
       THEN /\ out \in {"ok", "open_err", "write_err"}
            /\ (out # "ok") => failures < MaxSaveFailures
            /\ disk' = IF ignored THEN save_state_to_file(disk, r.bots, out)
                       ELSE fs_write(disk, to_string_pretty(r.bots), out)
            /\ failures' = IF out = "ok" THEN failures ELSE failures + 1
            /\ ret' = [op |-> op, args |-> args, out |-> out,
                       kind |-> IF out = "ok" \/ ignored THEN r.kind ELSE "SaveError",
                       view |-> IF out = "ok" \/ ignored THEN r.view ELSE NoView]
       ELSE /\ out = "none"
            /\ UNCHANGED <<disk, failures>>
            /\ ret' = [op |-> op, args |-> args, out |-> out,
                       kind |-> r.kind, view |-> r.view]



ServicesCreateBot ==
    \E args \in {a \in BotInsertArgsSet : IsSome(a.bot_id)}, out \in Outs :
        LegacyStep("services::create_bot", args,
                   services_create_bot(bots, BotFromInsertArgs(args, "-")), out, FALSE)

\* update_bot of services/bots.rs: the stored bot is replaced by the one
\* given, whatever its bot_id.
ServicesUpdateBot ==
    \E bot_id \in {"a"}, id \in BotIds :
        LET updated_bot == BotFromInsertArgs(MinInsertArgs(Some(id)), "-") IN
        LegacyStep("services::update_bot", [bot_id |-> bot_id, bot |-> updated_bot],
                   IF bot_id \in DOMAIN bots
                   THEN Outcome("Ok", Insert(bots, bot_id, updated_bot), FALSE, NoView)
                   ELSE Outcome("NotFound", bots, FALSE, NoView),
                   "none", FALSE)

LegacyCreateBot ==
    \E args \in (BotInsertArgsSet \cup {[MinInsertArgs(Some("b")) EXCEPT !.name = ""]}), out \in Outs :
        \E gen \in (IF IsSome(args.bot_id) THEN {"-"} ELSE FreshIds(BotIds, bots)) :
            LegacyStep("AppState::create_bot", args, create_bot(bots, args, gen), out, FALSE)

LegacyUpdateBot ==
    \E args \in BotUpdateArgsSet, out \in Outs :
        LegacyStep("AppState::args", args, AppState_args(bots, args), out, FALSE)

ApiDeleteBot ==
    \E args \in BotGetArgsSet, out \in Outs :
        LegacyStep("api::delete_bot", args, api_delete_bot(bots, args), out, TRUE)

ApiAddListener ==
    \E args \in {[bot_id |-> "a", service |-> "tv", secret |-> "s", msg |-> m] : m \in {None, Some("m")}}, out \in Outs :
        \E gen \in (IF args.bot_id \in DOMAIN bots
                     THEN FreshIds(ListenerIds, bots[args.bot_id].listeners) ELSE {"-"}) :
            LegacyStep("api::add_listener", args, api_add_listener(bots, args, gen),
                       out, TRUE)

NextLegacy ==
    \/ ServicesUpdateBot
    \/ ServicesCreateBot
    \/ LegacyCreateBot
    \/ LegacyUpdateBot
    \/ ApiDeleteBot
    \/ ApiAddListener

SpecLegacy == Init /\ [][NextLegacy]_vars

-----------------------------------------------------------------------------
(* The REST handlers of bot/api/endpoints.rs over one shared               *)
(* Arc<Mutex<AppState>> (bot/server.rs), each request served by its own     *)
(* handler, the handlers interleaving step by step.                          *)

\* A filter that lets a bot through as soon as one supplied predicate holds.
BotListArgs_matches_any(f, bot) ==
    \/ (IsSome(f.bot_id) /\ bot.bot_id = Unwrap(f.bot_id))
    \/ (IsSome(f.name) /\ bot.name = Unwrap(f.name))
    \/ (IsSome(f.exchange) /\ bot.exchange = Unwrap(f.exchange))
    \/ (IsSome(f.api_key) /\ bot.api_key = f.api_key)
    \/ (IsSome(f.rest_endpoint) /\ bot.rest_endpoint = f.rest_endpoint)
    \/ (IsSome(f.rpc_endpoint) /\ bot.rpc_endpoint = f.rpc_endpoint)
    \/ (IsSome(f.trading_fee) /\ bot.trading_fee = f.trading_fee)
    \/ (IsSome(f.private_key) /\ bot.private_key = f.private_key)
    \/ (IsSome(f.contract_address) /\ bot.contract_address = f.contract_address)

\* BotListArgs::matches: every supplied predicate equals the bot's field.
BotListArgs_matches(f, bot) ==
    /\ (IsSome(f.bot_id) => bot.bot_id = Unwrap(f.bot_id))
    /\ (IsSome(f.name) => bot.name = Unwrap(f.name))
    /\ (IsSome(f.exchange) => bot.exchange = Unwrap(f.exchange))
    /\ (IsSome(f.api_key) => bot.api_key = f.api_key)
    /\ (IsSome(f.rest_endpoint) => bot.rest_endpoint = f.rest_endpoint)
    /\ (IsSome(f.rpc_endpoint) => bot.rpc_endpoint = f.rpc_endpoint)
    /\ (IsSome(f.trading_fee) => bot.trading_fee = f.trading_fee)
    /\ (IsSome(f.private_key) => bot.private_key = f.private_key)
    /\ (IsSome(f.contract_address) => bot.contract_address = f.contract_address)

\* BotRegistry::list_bots: the views of the matching bots (all bots when no
\* filter is given); an empty result is NotFound.
list_bots(m, args) ==
    LET found == {id \in DOMAIN m :
                     IsSome(args) => BotListArgs_matches(Unwrap(args), m[id])}
    IN  IF found = {}
        THEN Outcome("NotFound", m, FALSE, NoView)
        ELSE Outcome("Ok", m, FALSE, [list |-> {BotViewFrom(m[id]) : id \in found}])

\* The orders in which a Vec collected from a HashMap can hold the set S.
SeqsOf(S) ==
    {q \in [1..Cardinality(S) -> S] : \A i, j \in 1..Cardinality(S) : q[i] = q[j] => i = j}

\* Pagination::page() and Pagination::limit() of a request without query.
DefaultPage == 1
DefaultLimit == 10

Min(x, y) == IF x < y THEN x ELSE y

\* usize arithmetic without overflow checks is modulo 2^64; the model takes
\* 2^16, which gives the same slices for the pages, limits and lists used.
usize_modulus == 65536

\* apply_pagination(data, page, limit) with 0-based positions: page 2 of
\* limit 1 starts at the third item.
apply_pagination_skipping(data, page, limit) ==
    LET first == (page * limit) % usize_modulus
        end   == (first + limit) % usize_modulus
    IN  IF first < Len(data) THEN SubSeq(data, first + 1, Min(Len(data), end))
        ELSE << >>

\* apply_pagination(data, page, limit) as a build without overflow checks
\* computes it; a build with them panics at `page - 1` when page = 0.
apply_pagination(data, page, limit) ==
    LET first == (((page - 1) % usize_modulus) * limit) % usize_modulus
        end   == (first + limit) % usize_modulus
    IN  IF first < Len(data) THEN SubSeq(data, first + 1, Min(Len(data), end))
        ELSE << >>

\* Pagination::validate: page().max(1) < 1 and limit().max(1) < 1.
Pagination_validate(page, limit) ==
    IF (IF page > 1 THEN page ELSE 1) < 1 \/ (IF limit > 1 THEN limit ELSE 1) < 1
    THEN "InvalidInput" ELSE "Ok"

\* AppError::status_code.
status_code(kind) ==
    CASE kind \in {"NotFound", "BotNotFound", "ListenerNotFound"} -> 404
      [] kind \in {"InvalidInput", "ValidationError", "SerializationError",
                   "NonUniqueResult", "ArgumentsRequired", "BotIdRequired"} -> 400
      [] kind = "BotAlreadyExists"                                  -> 409
      [] kind \in {"ConnectionError", "UnexpectedResponse"}         -> 502
      [] kind = "TimeoutError"                                      -> 504
      [] kind = "GeneralError"                                      -> 503
      [] OTHER                                                      -> 500

\* The response a handler builds from what the registry returned.
Response(req, kind, data) ==
    [status |-> IF kind # "Ok" THEN status_code(kind)
                ELSE IF req.op = "add_bot" THEN 201 ELSE 200,
     kind   |-> kind,
     data   |-> IF kind # "Ok" THEN NoView
                ELSE IF req.op = "delete_bot" THEN [body |-> "Bot deleted successfully"]
                ELSE data]


InitConc ==
    /\ bots \in {EmptyMap, add_bot(EmptyMap, FullInsertArgs(Some("a")), "-").bots}
    /\ disk = FileText(to_string_pretty(bots))
    /\ start = bots
    /\ ret = NoRet
    /\ failures = 0
    /\ lock = Free
    /\ cl = [c \in Clients |-> Idle]

\* A request arrives; busy records that another request held the lock then.
Receive(c) ==
    /\ cl[c].pc = "idle"
    /\ \E r \in {[op |-> "add_bot", args |-> FullInsertArgs(Some("a"))],
                 [op |-> "add_bot", args |-> MinInsertArgs(Some("a"))],
                 [op |-> "delete_bot", args |-> [bot_id |-> "a"]],
                 [op |-> "get_bots", args |-> None]} :
           cl' = [cl EXCEPT ![c] = [@ EXCEPT !.pc = "acquire", !.req = r,
                                             !.busy = (lock # Free)]]
    /\ UNCHANGED <<bots, disk, ret, failures, lock, start>>

\* Mutex::lock as used by acquire_lock: granted only while no guard is alive.
acquire_lock_ungated(l) == TRUE
acquire_lock(l) == l = Free

AcquireLock(c) ==
    /\ cl[c].pc = "acquire"
    /\ acquire_lock(lock)
    /\ lock' = c
    /\ cl' = [cl EXCEPT ![c].pc = "call"]
    /\ UNCHANGED <<bots, disk, ret, failures, start>>

\* add_bot, first part: args.into() and the contains_key test.
AddBotContains(c) ==
    /\ cl[c].pc = "call"
    /\ cl[c].req.op = "add_bot"
    /\ LET r == add_bot(bots, cl[c].req.args, "-") IN
           cl' = [cl EXCEPT ![c] = [@ EXCEPT !.found = r,
                                             !.pc = IF r.kind = "Ok" THEN "insert"
                                                    ELSE "reply"]]
    /\ UNCHANGED <<bots, disk, ret, failures, lock, start>>

\* add_bot, second part: self.bots.insert(bot_id, bot).
AddBotInsert(c) ==
    /\ cl[c].pc = "insert"
    /\ LET bot == BotFromInsertArgs(cl[c].req.args, "-") IN
           bots' = Insert(bots, bot.bot_id, bot)
    /\ cl' = [cl EXCEPT ![c].pc = "save"]
    /\ UNCHANGED <<disk, ret, failures, lock, start>>

\* delete_bot and list_bots up to the call of save.
RegistryCall(c) ==
    /\ cl[c].pc = "call"
    /\ cl[c].req.op \in {"delete_bot", "get_bots"}
    /\ LET r == IF cl[c].req.op = "delete_bot" THEN delete_bot(bots, cl[c].req.args)
                ELSE list_bots(bots, cl[c].req.args)
       IN  /\ bots' = r.bots
           /\ cl' = [cl EXCEPT ![c] =
                        [@ EXCEPT !.found = r,
                                  !.pc = IF r.save THEN "save"
                                         ELSE IF r.kind = "Ok" THEN "drop"
                                         ELSE "reply"]]
    /\ UNCHANGED <<disk, ret, failures, lock, start>>

\* self.save(None) inside a registry operation: the registry as it is now is
\* written.
SaveState(c) ==
    /\ cl[c].pc = "save"
    /\ \E out \in SaveOutcomes :
           /\ (out # "ok") => failures < MaxSaveFailures
           /\ disk' = save(disk, bots, out)
           /\ failures' = IF out = "ok" THEN failures ELSE failures + 1
           /\ cl' = [cl EXCEPT ![c] = [@ EXCEPT !.out = out, !.pc = "reply"]]
    /\ UNCHANGED <<bots, ret, lock, start>>

\* get_bots: drop(state) after list_bots returned, before paginating.
DropGuard(c) ==
    /\ cl[c].pc = "drop"
    /\ lock' = Free
    /\ cl' = [cl EXCEPT ![c].pc = "page"]
    /\ UNCHANGED <<bots, disk, ret, failures, start>>

\* The handler returns: get_bots paginates its copy of the list, the others
\* build their response and their guard goes out of scope.  With page = 0
\* the subtraction page - 1 of apply_pagination either panics (a build with
\* overflow checks: the handler ends without a response) or wraps.
Reply(c) ==
    /\ cl[c].pc \in {"reply", "page"}
    /\ LET kind == IF cl[c].out \in {"ok", "none"} THEN cl[c].found.kind
                   ELSE "SaveError"
           page == IF "page" \in DOMAIN cl[c].req THEN cl[c].req.page ELSE DefaultPage
       IN  IF cl[c].pc = "page"
           THEN \E q \in SeqsOf(cl[c].found.view.list),
                   checks \in (IF page = 0 THEN BOOLEAN ELSE {FALSE}) :
                    cl' = [cl EXCEPT ![c] =
                             IF checks
                             THEN [@ EXCEPT !.pc = "panicked"]
                             ELSE [@ EXCEPT !.pc = "done",
                                            !.resp = Response(cl[c].req, kind,
                                                       apply_pagination(q, page,
                                                                        DefaultLimit))]]
           ELSE cl' = [cl EXCEPT ![c] =
                         [@ EXCEPT !.pc = "done",
                                   !.resp = Response(cl[c].req, kind, cl[c].found.view)]]
    /\ lock' = IF cl[c].pc = "reply" THEN Free ELSE lock
    /\ UNCHANGED <<bots, disk, ret, failures, start>>

NextConc ==
    \E c \in Clients :
        \/ Receive(c)
        \/ AcquireLock(c)
        \/ AddBotContains(c)
        \/ AddBotInsert(c)
        \/ RegistryCall(c)
        \/ SaveState(c)
        \/ DropGuard(c)
        \/ Reply(c)

SpecConc == InitConc /\ [][NextConc]_vars

-----------------------------------------------------------------------------
(* The command line's two facades: offline (local_client) and online
   (remote_client through RestClient and the HTTP handlers) *)

\* JSON values of an HTTP body.
JsonNull == [type |-> "null"]
JsonObject(f) == [type |-> "object", fields |-> f]

\* What is printed for a result of type T; for a BotView, impl Display for
\* BotView.
Display(T, v) ==
    IF T = "BotView"
    THEN [bot_id           |-> v.bot_id,
          name             |-> v.name,
          exchange         |-> v.exchange,
          rest_endpoint    |-> v.rest_endpoint,
          rpc_endpoint     |-> v.rpc_endpoint,
          trading_fee      |-> v.trading_fee,
          contract_address |-> v.contract_address,
          listeners        |-> Cardinality(DOMAIN v.listeners)]
    ELSE [text |-> v]

\* A field of a JSON object read into an Option: absent reads as None.
OptionField(f, k) == IF k \in DOMAIN f THEN f[k] ELSE None

\* serde's Deserialize of T from a JSON value: Some(value), or None when the
\* document is not a T (a BotView needs an object with bot_id, name, exchange
\* and listeners; a String needs a JSON string).
deserialize(T, j) ==
    IF T = "BotView"
    THEN IF /\ j.type = "object"
            /\ {"bot_id", "name", "exchange", "listeners"} \subseteq DOMAIN j.fields
         THEN LET f == j.fields IN
              Some([bot_id           |-> f.bot_id,
                    name             |-> f.name,
                    exchange         |-> f.exchange,
                    api_key          |-> OptionField(f, "api_key"),
                    api_secret       |-> OptionField(f, "api_secret"),
                    rest_endpoint    |-> OptionField(f, "rest_endpoint"),
                    rpc_endpoint     |-> OptionField(f, "rpc_endpoint"),
                    webhook_secret   |-> OptionField(f, "webhook_secret"),
                    trading_fee      |-> OptionField(f, "trading_fee"),
                    private_key      |-> OptionField(f, "private_key"),
                    contract_address |-> OptionField(f, "contract_address"),
                    listeners        |-> [l \in DOMAIN f.listeners |->
                                             ListenerFromJson(f.listeners[l])]])
         ELSE None
    ELSE IF j.type = "string" THEN Some(j.value) ELSE None

\* create_api_response(true, Some(data), None) serialized as the body.
create_api_response(data) ==
    JsonObject([success |-> TRUE, data |-> data, error |-> JsonNull])

\* ApiError::error_response: the body of an error answer.
error_response(kind) ==
    JsonObject([error |-> kind, code |-> status_code(kind), details |-> JsonNull])

\* The HTTP answer of the handlers add_bot, get_bot and delete_bot to a
\* registry call that ended as kind with the view.
HttpResponse(op, kind, view) ==
    IF kind # "Ok"
    THEN [status |-> status_code(kind), body |-> error_response(kind)]
    ELSE IF op = "add_bot"
    THEN [status |-> 201, body |-> create_api_response(JsonObject(BotViewToJson(view)))]
    ELSE IF op = "delete_bot"
    THEN [status |-> 200,
          body   |-> create_api_response([type  |-> "string",
                                         value |-> "Bot deleted successfully"])]
    ELSE [status |-> 200, body |-> create_api_response(JsonObject(BotViewToJson(view)))]

\* The result of a facade call: its kind, the HTTP status an HttpError
\* carries, and what is shown on success.
FacadeResult(kind, status, shown) == [kind |-> kind, status |-> status, shown |-> shown]

is_success(status) == status >= 200 /\ status < 300

\* RestClient::process_response::<T>.
process_response(T, response) ==
    IF is_success(response.status)
    THEN LET v == deserialize(T, response.body) IN
         IF IsSome(v) THEN FacadeResult("Ok", response.status, Display(T, Unwrap(v)))
         ELSE FacadeResult("ParseError", response.status, NoView)
    ELSE FacadeResult("HttpError", response.status, NoView)

\* process_and_display_response::<T>: the body is read as ApiResponse<T> and
\* its data printed.
process_and_display_response(T, response) ==
    IF is_success(response.status)
    THEN LET j == response.body
             v == IF /\ j.type = "object"
                     /\ "success" \in DOMAIN j.fields
                     /\ "data" \in DOMAIN j.fields
                     /\ j.fields.data.type # "null"
                  THEN deserialize(T, j.fields.data) ELSE None
         IN  IF j.type # "object" \/ "success" \notin DOMAIN j.fields
             THEN FacadeResult("JsonParseError", response.status, NoView)
             ELSE IF "data" \notin DOMAIN j.fields \/ j.fields.data.type = "null"
             THEN FacadeResult("UnexpectedResponse", response.status, NoView)
             ELSE IF IsSome(v)
             THEN FacadeResult("Ok", response.status, Display(T, Unwrap(v)))
             ELSE FacadeResult("JsonParseError", response.status, NoView)
    ELSE FacadeResult("HttpError", response.status, NoView)

\* One command given to both facades on the same registry and file: the
\* registry call and its save happen once, the offline facade prints its
\* result (local_client::run), the online facade gets it through the
\* handler's HTTP answer: RestClient's method parses it into a String for
\* delete_bot and a BotView otherwise, remote_client::run displays a BotView
\* for every bot command.
FacadeStep(op, args, r, out) ==
    /\ bots' = r.bots
    /\ UNCHANGED <<lock, cl, start>>
    /\ IF r.save
       THEN /\ out \in SaveOutcomes
            /\ (out # "ok") => failures < MaxSaveFailures
            /\ disk' = save(disk, r.bots, out)
            /\ failures' = IF out = "ok" THEN failures ELSE failures + 1
       ELSE /\ out = "none"
            /\ UNCHANGED <<disk, failures>>
    /\ LET kind == IF r.save /\ out # "ok" THEN "SaveError" ELSE r.kind
           http == HttpResponse(op, kind, r.view)
       IN  ret' = [op |-> "cli::" \o op, args |-> args, out |-> out,
                   kind |-> kind,
                   view |-> IF kind = "Ok" THEN r.view ELSE NoView,
                   direct |-> IF kind = "Ok"
                              THEN FacadeResult("Ok", 0, Display("BotView", r.view))
                              ELSE FacadeResult(kind, 0, NoView),
                   rest   |-> process_response(IF op = "delete_bot" THEN "String"
                                               ELSE "BotView", http),
                   remote |-> process_and_display_response("BotView", http)]

\* The bots asked for at the command line: those of BotInsertArgsSet and one
\* with an empty exchange.
CliInsertArgsSet ==
    BotInsertArgsSet \cup {[MinInsertArgs(Some("b")) EXCEPT !.exchange = ""]}

CliAddBot ==
    \E args \in CliInsertArgsSet, out \in Outs :
        \E gen \in (IF IsSome(args.bot_id) THEN {"-"} ELSE FreshIds(BotIds, bots)) :
            FacadeStep("add_bot", args, add_bot(bots, args, gen), out)

CliGetBot ==
    \E args \in BotGetArgsSet, out \in Outs :
        FacadeStep("get_bot", args, get_bot(bots, args), out)

CliDeleteBot ==
    \E args \in BotGetArgsSet, out \in Outs :
        FacadeStep("delete_bot", args, delete_bot(bots, args), out)

\* The status codes as the six-kind list reads them, one code per kind.
status_code_by_kind(kind) ==
    CASE kind \in {"InvalidInput", "ValidationError", "ArgumentsRequired",
                   "BotIdRequired"}                                  -> 400
      [] kind \in {"NotFound", "BotNotFound", "ListenerNotFound"}   -> 404
      [] kind = "BotAlreadyExists"                                  -> 409
      [] kind \in {"ConnectionError", "TimeoutError", "UnexpectedResponse"} -> 502
      [] kind \in {"InternalServerError", "Unknown"}                -> 504
      [] OTHER                                                      -> 500

\* ApiError::status_code (HttpError carries its own status, see ErrorResponse).
ApiError_status_code(kind) ==
    CASE kind \in {"NotFound", "BotNotFound", "ListenerNotFound"} -> 404
      [] kind \in {"InvalidInput", "ValidationError", "SerializationError",
                   "NonUniqueResult", "ArgumentsRequired", "BotIdRequired",
                   "ParseError"}                                    -> 400
      [] kind = "BotAlreadyExists"                                  -> 409
      [] kind \in {"InsertionError", "Unknown", "SaveError",
                   "InternalServerError"}                           -> 500
      [] kind \in {"ConnectionError", "UnexpectedResponse"}         -> 502
      [] kind = "TimeoutError"                                      -> 504
      [] kind = "GeneralError"                                      -> 503

\* From<ServerError> for ApiError (a boxed ApiError is unwrapped).
From_ServerError(err) ==
    CASE err.kind = "ApiError"           -> err.inner
      [] err.kind = "JsonParseError"     -> "SerializationError"
      [] err.kind = "NoFilePathProvided" -> "InvalidInput"
      [] OTHER                           -> "InternalServerError"

\* ResponseError::error_response of either error type: the status line of
\* the answer the HTTP layer builds for a handler's Err(e).
ErrorResponse ==
    \E layer \in {"ApiError", "AppError"}, code \in {0, 99, 404, 418, 503, 1000} :
      \E kind \in
            {"Unknown", "InternalServerError", "InvalidInput", "ValidationError",
             "SerializationError", "ConnectionError", "TimeoutError", "GeneralError",
             "UnexpectedResponse", "NonUniqueResult", "ArgumentsRequired",
             "BotIdRequired", "NotFound", "BotNotFound", "BotAlreadyExists",
             "ListenerNotFound", "SaveError", "HttpError"}
            \cup (IF layer = "ApiError" THEN {"InsertionError", "ParseError"}
                  ELSE {"ConfigError", "JsonParseError", "EnvVarError",
                        "NoFilePathProvided", "FileReadError", "FileWriteError",
                        "LockError", "InvalidState"}) :
        /\ (kind # "HttpError") => code = 0
        /\ ret' = [op |-> "error_response", args |-> [layer |-> layer, code |-> code],
                   out |-> "none", kind |-> kind, view |-> NoView,
                   status |-> IF kind = "HttpError"
                              THEN (IF code \in 100..999 THEN code ELSE 500)
                              ELSE IF layer = "ApiError" THEN ApiError_status_code(kind)
                              ELSE status_code(kind)]
        /\ UNCHANGED <<bots, disk, failures, lock, cl, start>>

\* A handler's `?` on a ServerError: converted, then answered as an ApiError.
ServerErrorResponse ==
    \E err \in {[kind |-> k, inner |-> "-"] :
                    k \in {"Other", "FileReadError", "FileWriteError", "JsonParseError",
                           "EnvVarError", "NoFilePathProvided", "ConfigError",
                           "LockError", "InvalidState"}}
               \cup {[kind |-> "ApiError", inner |-> k] :
                        k \in {"BotNotFound", "SaveError", "TimeoutError"}} :
        /\ ret' = [op |-> "server_error_response", args |-> err, out |-> "none",
                   kind |-> From_ServerError(err), view |-> NoView,
                   status |-> ApiError_status_code(From_ServerError(err))]
        /\ UNCHANGED <<bots, disk, failures, lock, cl, start>>

\* POST /bots (bot/api/endpoints.rs add_bot): a body that does not
\* deserialize is answered InvalidInput; otherwise AppState::add_bot, its
\* save, and 201 with the view in the envelope or the error's answer.
PostBots ==
    \E json_data \in {[ok |-> FALSE, args |-> NoView]}
                     \cup {[ok |-> TRUE, args |-> a] : a \in CliInsertArgsSet},
       out \in Outs :
      \E gen \in (IF json_data.ok /\ ~IsSome(json_data.args.bot_id)
                  THEN FreshIds(BotIds, bots) ELSE {"-"}) :
        LET r    == IF json_data.ok THEN add_bot(bots, json_data.args, gen)
                    ELSE Outcome("InvalidInput", bots, FALSE, NoView)
            kind == IF r.save /\ out # "ok" THEN "SaveError" ELSE r.kind
            http == HttpResponse("add_bot", kind, r.view)
        IN  /\ bots' = r.bots
            /\ UNCHANGED <<lock, cl, start>>
            /\ IF r.save
               THEN /\ out \in SaveOutcomes
                    /\ (out # "ok") => failures < MaxSaveFailures
                    /\ disk' = save(disk, r.bots, out)
                    /\ failures' = IF out = "ok" THEN failures ELSE failures + 1
               ELSE /\ out = "none"
                    /\ UNCHANGED <<disk, failures>>
            /\ ret' = [op |-> "POST /bots", args |-> json_data, out |-> out,
                       kind |-> kind,
                       view |-> IF kind = "Ok" THEN r.view ELSE NoView,
                       status |-> http.status, body |-> http.body]

NextFacade ==
    \/ CliAddBot
    \/ CliGetBot
    \/ CliDeleteBot
    \/ ErrorResponse
    \/ ServerErrorResponse
    \/ PostBots

SpecFacade == Init /\ [][NextFacade]_vars

-----------------------------------------------------------------------------
(* Queries and bulk removal, applied to registries of up to two bots with
   up to two listeners each *)

\* A listener as add_listener stores it when no secret and no msg are given.
NewListener(service) == [service |-> service, secret |-> "", msg |-> ""]

\* The bots add_bot and add_listener can have stored under id, with the
\* listener maps a stored bot may carry.
StoredBots(id) ==
    {[BotFromInsertArgs(args, "-") EXCEPT !.listeners = ls] :
        args \in {FullInsertArgs(Some(id)), MinInsertArgs(Some(id))},
        ls \in {EmptyMap,
                [l \in {"l1"} |-> NewListener("tv")],
                [l \in {"l1", "l2"} |-> NewListener(IF l = "l1" THEN "tv" ELSE "tg")],
                [l \in {"l1", "l2"} |-> NewListener("tv")]}}

QueryRegistries ==
    {EmptyMap}
    \cup {[i \in {"a"} |-> x] : x \in StoredBots("a")}
    \cup {[i \in {"b"} |-> y] : y \in StoredBots("b")}
    \cup {[i \in BotIds |-> IF i = "a" THEN x ELSE y] :
            x \in StoredBots("a"), y \in StoredBots("b")}

\* BotListArgs::new(): no predicate supplied.
NoFilter ==
    [bot_id |-> None, name |-> None, exchange |-> None, api_key |-> None,
     rest_endpoint |-> None, rpc_endpoint |-> None, trading_fee |-> None,
     private_key |-> None, contract_address |-> None]

\* The filters given to list_bots: none at all, the empty one, one per
\* field, and two with two predicates.
BotListArgsSet ==
    {None, Some(NoFilter),
     Some([NoFilter EXCEPT !.bot_id = Some("b")]),
     Some([NoFilter EXCEPT !.name = Some("n2")]),
     Some([NoFilter EXCEPT !.exchange = Some("x1")]),
     Some([NoFilter EXCEPT !.api_key = Some("k1")]),
     Some([NoFilter EXCEPT !.rest_endpoint = Some("r1")]),
     Some([NoFilter EXCEPT !.rpc_endpoint = Some("p1")]),
     Some([NoFilter EXCEPT !.trading_fee = Some(1)]),
     Some([NoFilter EXCEPT !.private_key = Some("v1")]),
     Some([NoFilter EXCEPT !.contract_address = Some("c1")]),
     Some([NoFilter EXCEPT !.exchange = Some("x1"), !.name = Some("nomatch")]),
     Some([NoFilter EXCEPT !.exchange = Some("x2"), !.bot_id = Some("a")])}

InitQuery ==
    /\ bots \in QueryRegistries
    /\ disk = FileText(to_string_pretty(bots))
    /\ start = bots
    /\ ret = NoRet
    /\ failures = 0
    /\ lock = Free
    /\ cl = [c \in Clients |-> Idle]

ListBots ==
    \E args \in BotListArgsSet :
        Step("list_bots", args, list_bots(bots, args), "none")

\* AppState::list_bots of app_state.rs: every bot, as a vector.
AppState_list_bots(m) ==
    Outcome("Ok", m, FALSE, [list |-> {m[id] : id \in DOMAIN m}])

LegacyListBots ==
    Step("AppState::list_bots", None, AppState_list_bots(bots), "none")

\* The handler get_bots of bot/api/endpoints.rs for a request without
\* pagination query: list_bots, its error passed on by `?`, then the page;
\* order is the order in which the map yielded the bots.
get_bots(m, filter, order) ==
    LET r == list_bots(m, filter) IN
    Outcome(r.kind, m, FALSE,
            IF r.kind = "Ok"
            THEN Response([op |-> "get_bots"], "Ok",
                          apply_pagination(order, DefaultPage, DefaultLimit))
            ELSE Response([op |-> "get_bots"], r.kind, NoView))

\* The handler get_bots of api/bots/endpoints.rs for a request without
\* pagination query: page 1 and a limit of all the bots.
api_get_bots(m, order) ==
    LET page  == 1
        limit == Len(order)
        first == (page - 1) * limit
        last  == Min(first + limit, Len(order))
    IN  Outcome("Ok", m, FALSE,
                [status |-> 200, kind |-> "Ok",
                 data   |-> IF first >= Len(order) THEN << >>
                            ELSE SubSeq(order, first + 1, last)])

GetBots ==
    \E filter \in BotListArgsSet :
        LET r == list_bots(bots, filter) IN
        \E order \in (IF r.kind = "Ok" THEN SeqsOf(r.view.list) ELSE {<< >>}) :
            Step("bot::api::get_bots", filter, get_bots(bots, filter, order), "none")

ApiGetBots ==
    \E order \in SeqsOf(AppState_list_bots(bots).view.list) :
        Step("api::get_bots", None, api_get_bots(bots, order), "none")

\* GET /bots?page=..&limit=.. served by get_bots of bot/api/endpoints.rs:
\* validate, list_bots with its error passed on, then the page of the list
\* in the order the map yielded it.  checks: the build has overflow checks.
GetBotsPaged ==
    \E page \in {None} \cup {Some(n) : n \in 0..2},
       limit \in {None} \cup {Some(n) : n \in 0..2} :
      \E checks \in (IF page = Some(0) THEN BOOLEAN ELSE {FALSE}) :
        LET p == IF IsSome(page) THEN Unwrap(page) ELSE DefaultPage
            l == IF IsSome(limit) THEN Unwrap(limit) ELSE DefaultLimit
            r == list_bots(bots, None)
        IN  \E order \in (IF r.kind = "Ok" THEN SeqsOf(r.view.list) ELSE {<< >>}) :
              Step("bot::api::get_bots?", [page |-> page, limit |-> limit, all |-> order],
                   CASE Pagination_validate(p, l) # "Ok"
                          -> Outcome("InvalidInput", bots, FALSE, NoView)
                     [] Pagination_validate(p, l) = "Ok" /\ r.kind # "Ok"
                          -> Outcome(r.kind, bots, FALSE, NoView)
                     [] OTHER
                          -> IF checks /\ p = 0
                             THEN Outcome("panic", bots, FALSE, NoView)
                             ELSE Outcome("Ok", bots, FALSE,
                                          Response([op |-> "get_bots"], "Ok",
                                                   apply_pagination(order, p, l))),
                   "none")

\* GET /bots?page=..&limit=.. served by get_bots of api/bots/endpoints.rs:
\* page 1 and a limit of all the bots unless given, no validation.
ApiGetBotsPaged ==
    \E page \in {None} \cup {Some(n) : n \in 0..2},
       limit \in {None} \cup {Some(n) : n \in 0..2} :
      \E checks \in (IF page = Some(0) THEN BOOLEAN ELSE {FALSE}) :
      \E order \in SeqsOf(AppState_list_bots(bots).view.list) :
        LET p     == IF IsSome(page) THEN Unwrap(page) ELSE 1
            l     == IF IsSome(limit) THEN Unwrap(limit) ELSE Len(order)
            first == (((p - 1) % usize_modulus) * l) % usize_modulus
            end   == (first + l) % usize_modulus
            last  == IF end > Len(order) THEN Len(order) ELSE end
        IN  Step("api::get_bots?", [page |-> page, limit |-> limit, all |-> order],
                 IF checks /\ p = 0
                 THEN Outcome("panic", bots, FALSE, NoView)
                 ELSE Outcome("Ok", bots, FALSE,
                              [status |-> 200, kind |-> "Ok",
                               data   |-> IF first >= Len(order) THEN << >>
                                          ELSE SubSeq(order, first + 1, last)]),
                 "none")

\* str::trim, on the identifiers used here.
trim(s) == IF s = " " THEN "" ELSE s

\* BotRegistry::list_listeners; its first test is validate_bot_id.
list_listeners(m, args) ==
    IF trim(args.bot_id) = ""
    THEN Outcome("ValidationError", m, FALSE, NoView)
    ELSE IF args.bot_id \notin DOMAIN m
    THEN Outcome("BotNotFound", m, FALSE, NoView)
    ELSE LET bot   == m[args.bot_id]
             found == {l \in DOMAIN bot.listeners :
                          ListenerMatches(args, l, bot.listeners[l])}
         IN  IF found = {}
             THEN Outcome("ListenerNotFound", m, FALSE, NoView)
             ELSE Outcome("Ok", m, FALSE,
                          [list |-> {ListenerViewFrom(args.bot_id, l, bot.listeners[l]) :
                                       l \in found}])

\* The listener filters: every combination of the two predicates on bot a,
\* the bare listing of bot b, and an empty and a blank bot_id.
ListenerListArgsSet ==
    {[bot_id |-> "a", listener_id |-> l, service |-> sv] :
        l \in {None, Some("l1"), Some("l2")}, sv \in {None, Some("tv"), Some("tg")}}
    \cup {[bot_id |-> id, listener_id |-> None, service |-> None] : id \in {"b", "", " "}}

ListListeners ==
    \E args \in ListenerListArgsSet :
        Step("list_listeners", args, list_listeners(bots, args), "none")

\* The handler get_listeners of api/listeners/endpoints.rs: the listeners of
\* the bot as they are, or 404 when there is no such bot.  Its bot_id is a
\* path segment and so never empty.
api_get_listeners(m, args) ==
    IF args.bot_id \in DOMAIN m
    THEN Outcome("Ok", m, FALSE,
                 [status |-> 200, kind |-> "Ok", data |-> m[args.bot_id].listeners])
    ELSE Outcome("BotNotFound", m, FALSE,
                 [status |-> 404, kind |-> "BotNotFound", data |-> NoView])

ApiGetListeners ==
    \E args \in {a \in ListenerListArgsSet :
                     a.bot_id \in BotIds /\ a.listener_id = None /\ a.service = None} :
        Step("api::get_listeners", args, api_get_listeners(bots, args), "none")

NextQuery ==
    \/ ListListeners
    \/ ApiGetListeners
    \/ ListBots
    \/ LegacyListBots
    \/ GetBots
    \/ ApiGetBots

SpecQuery == InitQuery /\ [][NextQuery]_vars

NextPage ==
    \/ GetBotsPaged
    \/ ApiGetBotsPaged

SpecPage == InitQuery /\ [][NextPage]_vars

(* The same handlers with the requests that carry a page number, and the
   handler get_bots of api/bots/endpoints.rs, which takes the mutex with
   data.lock().unwrap() and computes (page - 1) * limit while it holds the
   guard.  A server runs the handlers of one revision, so the requests of a
   run are all of bot/api or all of api/bots.  A mutex whose guard was dropped
   by a panic is poisoned: it is free, and every later lock() returns Err. *)

\* A request arrives at the server.
ReceiveServe(c) ==
    /\ cl[c].pc = "idle"
    /\ \E r \in {[op |-> "add_bot", args |-> FullInsertArgs(Some("a"))]}
               \cup {[op |-> "get_bots", args |-> None, page |-> p] : p \in 0..1}
               \cup {[op |-> "api::get_bots", page |-> p] : p \in {None, Some(0)}} :
           /\ \A d \in Clients :
                  cl[d].req # NoView =>
                      ((cl[d].req.op = "api::get_bots") <=> (r.op = "api::get_bots"))
           /\ cl' = [cl EXCEPT ![c] = [@ EXCEPT !.pc = "acquire", !.req = r,
                                                !.busy = (lock # Free)]]
    /\ UNCHANGED <<bots, disk, ret, failures, lock, start>>

\* get_bots of api/bots/endpoints.rs from the moment it holds the guard to
\* its return; a panic unwinds through the guard and poisons the mutex.
LegacyGetBots(c) ==
    /\ cl[c].pc = "call"
    /\ cl[c].req.op = "api::get_bots"
    /\ \E order \in SeqsOf(AppState_list_bots(bots).view.list) :
         LET page  == IF IsSome(cl[c].req.page) THEN Unwrap(cl[c].req.page) ELSE 1
             limit == Len(order)
             first == (((page - 1) % usize_modulus) * limit) % usize_modulus
             end   == (first + limit) % usize_modulus
             last  == IF end > Len(order) THEN Len(order) ELSE end
         IN  \E checks \in (IF page = 0 THEN BOOLEAN ELSE {FALSE}) :
               IF checks
               THEN /\ lock' = "poisoned"
                    /\ cl' = [cl EXCEPT ![c].pc = "panicked"]
               ELSE /\ lock' = Free
                    /\ cl' = [cl EXCEPT ![c] =
                                [@ EXCEPT !.pc = "done",
                                          !.resp = [status |-> 200, kind |-> "Ok",
                                                    data |-> IF first >= Len(order)
                                                             THEN << >>
                                                             ELSE SubSeq(order, first + 1,
                                                                         last)]]]
    /\ UNCHANGED <<bots, disk, ret, failures, start>>

\* data.lock().unwrap() on a poisoned mutex: the handler panics.
LockPoisoned(c) ==
    /\ cl[c].pc = "acquire"
    /\ cl[c].req.op = "api::get_bots"
    /\ lock = "poisoned"
    /\ cl' = [cl EXCEPT ![c].pc = "panicked"]
    /\ UNCHANGED <<bots, disk, ret, failures, lock, start>>

NextServe ==
    \E c \in Clients :
        \/ ReceiveServe(c)
        \/ AcquireLock(c)
        \/ AddBotContains(c)
        \/ AddBotInsert(c)
        \/ RegistryCall(c)
        \/ SaveState(c)
        \/ DropGuard(c)
        \/ Reply(c)
        \/ LegacyGetBots(c)
        \/ LockPoisoned(c)

\* Every handler that was started keeps being scheduled: its next step is
\* taken once it stays possible.  The arrival of requests is not forced.
SpecServe ==
    /\ InitConc
    /\ [][NextServe]_vars
    /\ \A c \in Clients :
           WF_vars(\/ AcquireLock(c)
                   \/ AddBotContains(c)
                   \/ AddBotInsert(c)
                   \/ RegistryCall(c)
                   \/ SaveState(c)
                   \/ DropGuard(c)
                   \/ Reply(c)
                   \/ LegacyGetBots(c)
                   \/ LockPoisoned(c))

-----------------------------------------------------------------------------
(* The end-to-end scenario of a client of the handlers of bot/api/endpoints.rs:
   it creates a bot, gives it a listener, lists the bot's listeners, deletes
   the bot and asks for it again, each request using the bot_id of the answer
   before.  ret holds the last exchange. *)

\* POST /bots/{bot_id}/listeners with {service}, sent for the bot the 201
\* named: the bot_id of the path replaces that of the body.
EndpointsAddListener ==
    /\ ret.op = "POST /bots"
    /\ ret.status = 201
    /\ \E gen \in ListenerIds, out \in Outs :
         LET args == [bot_id |-> ret.view.bot_id, listener_id |-> None,
                      service |-> "tv", secret |-> None, msg |-> None]
             r    == add_listener(bots, args, gen)
         IN  Step("POST /bots/{bot_id}/listeners", args,
                  [r EXCEPT !.view = IF r.kind = "Ok"
                                     THEN [status |-> 200, data |-> r.view]
                                     ELSE NoView],
                  out)

\* GET /bots/{bot_id}/listeners with no filter: an empty selection is
\* answered with ListenerNotFound.
EndpointsListListeners ==
    /\ ret.op = "POST /bots/{bot_id}/listeners"
    /\ LET args == [bot_id |-> ret.args.bot_id, listener_id |-> None, service |-> None]
           r    == list_listeners(bots, args)
       IN  Step("GET /bots/{bot_id}/listeners", args,
                IF r.kind = "Ok" /\ r.view.list = {}
                THEN Outcome("ListenerNotFound", bots, FALSE, NoView)
                ELSE [r EXCEPT !.view = IF r.kind = "Ok"
                                        THEN [status |-> 200, data |-> r.view.list]
                                        ELSE NoView],
                "none")

\* DELETE /bots/{bot_id}.
EndpointsDeleteBot ==
    /\ ret.op = "GET /bots/{bot_id}/listeners"
    /\ \E out \in Outs :
         LET args == [bot_id |-> ret.args.bot_id]
             r    == delete_bot(bots, args)
         IN  Step("DELETE /bots/{bot_id}", args,
                  [r EXCEPT !.view = IF r.kind = "Ok"
                                     THEN [status |-> 200,
                                           data   |-> "Bot deleted successfully"]
                                     ELSE NoView],
                  out)

\* GET /bots/{bot_id}.
EndpointsGetBot ==
    /\ ret.op = "DELETE /bots/{bot_id}"
    /\ LET args == [bot_id |-> ret.args.bot_id]
           r    == get_bot(bots, args)
       IN  Step("GET /bots/{bot_id}", args,
                [r EXCEPT !.view = IF r.kind = "Ok"
                                   THEN [status |-> 200, data |-> r.view]
                                   ELSE NoView],
                "none")

\* The scenario opens with POST /bots {name, exchange}.
NextScenario ==
    \/ /\ ret = NoRet
       /\ PostBots
       /\ ret'.args = [ok |-> TRUE, args |-> MinInsertArgs(None)]
    \/ EndpointsAddListener
    \/ EndpointsListListeners
    \/ EndpointsDeleteBot
    \/ EndpointsGetBot

SpecScenario == InitQuery /\ [][NextScenario]_vars

(* Updating a listener, in the registry and in services/listeners.rs *)

\* The bots of m holding a listener with this id.
Holders(m, listener_id) == {id \in DOMAIN m : listener_id \in DOMAIN m[id].listeners}

\* update_listener of services/listeners.rs: the first bot that values_mut()
\* yields with a listener of this id gets that listener replaced; first is
\* that bot, any holder, the map being unordered.
services_update_listener(m, listener_id, updated_listener, first) ==
    IF Holders(m, listener_id) = {}
    THEN Outcome("NotFound", m, FALSE, NoView)
    ELSE Outcome("Ok",
                 Insert(m, first,
                        [m[first] EXCEPT !.listeners =
                            Insert(@, listener_id, updated_listener)]),
                 FALSE, NoView)


ServicesUpdateListener ==
    \E args \in {[bot_id |-> "a", listener_id |-> "l1", service |-> Some("tg"),
                 secret |-> Some(""), msg |-> Some("")]} :
        \E first \in (IF Holders(bots, args.listener_id) = {} THEN {"-"}
                      ELSE Holders(bots, args.listener_id)) :
            Step("services::update_listener", args,
                 services_update_listener(bots, args.listener_id,
                     [service |-> Unwrap(args.service), secret |-> Unwrap(args.secret),
                      msg |-> Unwrap(args.msg)],
                     first),
                 "none")

\* Listeners asked for on bot a under the id l2, one of them with an empty
\* service.
AddListenerAnyService ==
    \E args \in {[bot_id |-> "a", listener_id |-> Some("l2"), service |-> sv,
                   secret |-> None, msg |-> None] : sv \in {"", "tv"}},
       out \in Outs :
        Step("add_listener", args, add_listener(bots, args, "-"), out)

\* AppState::delete_listener of bot/state/mod.rs: the listener is taken out
\* of the bot's map, the state is saved, and only then is a missing listener
\* reported.
StateDeleteListener ==
    \E bot_id \in {"a"}, listener_id \in {"l2"}, out \in Outs :
        LET args == [bot_id |-> bot_id, listener_id |-> listener_id] IN
        Step("AppState::delete_listener", args,
             IF bot_id \notin DOMAIN bots
             THEN Outcome("BotNotFound", bots, FALSE, NoView)
             ELSE IF listener_id \notin DOMAIN bots[bot_id].listeners
             THEN Outcome("ListenerNotFound", bots, TRUE, NoView)
             ELSE Outcome("Ok",
                          Insert(bots, bot_id,
                                 [bots[bot_id] EXCEPT !.listeners = Remove(@, listener_id)]),
                          TRUE,
                          ListenerViewFrom(bot_id, listener_id,
                                           bots[bot_id].listeners[listener_id])),
             out)

\* BotRegistry::update_bot with BotUpdateArgs that carry a listener map (the
\* field listeners of the request body) and no other field.
UpdateBotListeners ==
    \E out \in Outs :
        LET args == [bot_id |-> "a", name |-> None, exchange |-> None,
                     api_key |-> None, api_secret |-> None,
                     rest_endpoint |-> None, rpc_endpoint |-> None,
                     webhook_secret |-> None, trading_fee |-> None,
                     private_key |-> None, contract_address |-> None,
                     listeners |-> [l \in {"l2"} |-> NewListener("tg")]]
        IN  Step("update_bot", args, update_bot(bots, args), out)

NextListeners ==
    \/ UpdateBotListeners
    \/ StateDeleteListener
    \/ AddListenerAnyService
    \/ UpdateListener
    \/ ServicesUpdateListener

SpecListeners == InitQuery /\ [][NextListeners]_vars

-----------------------------------------------------------------------------
(* Start-up: the state file found at start, the loaders, server_mode.       *)
(* SpecLoad starts before any load has run; `start` records what the file   *)
(* held at that moment, `ret` the last call's result, plus `cause`, the     *)
(* error kind AppState::save or AppState::load produced inside that call.   *)

\* The file found at start: absent, unreadable, "{}", or what save wrote
\* for a registry (`start` keeps which, and that registry).
InitLoad ==
    /\ start \in
        {[kind |-> k, bots |-> EmptyMap] : k \in {"missing", "invalid", "blank"}}
        \cup {[kind |-> "saved", bots |-> m] :
                m \in {q \in QueryRegistries : DOMAIN q \subseteq {"a"}}
                      \cup {[i \in BotIds |->
                               BotFromInsertArgs(FullInsertArgs(Some(i)), "-")]}
                      \cup {[i \in {"a"} |->
                               [BotFromInsertArgs(FullInsertArgs(Some("a")), "-")
                                   EXCEPT !.trading_fee = Some(f64_INFINITY)]]}}
    /\ disk = CASE start.kind = "missing" -> FileMissing
                [] start.kind = "invalid" -> FilePartial
                [] start.kind = "blank"   -> FileText(EmptyObject)
                [] OTHER                  -> save(FileMissing, start.bots, "ok")
    /\ bots = EmptyMap
    /\ ret = [op |-> "boot", args |-> NoView, out |-> "none", kind |-> "Ok",
              view |-> NoView, cause |-> "Ok"]
    /\ failures = 0
    /\ lock = Free
    /\ cl = [c \in Clients |-> Idle]

\* src/state.rs load: `bots` carries no serde default, a missing file is a
\* read error and nothing is written.
state_rs_load(file) ==
    IF file.kind = "missing"
    THEN [kind |-> "FileReadError", bots |-> EmptyMap, file |-> file]
    ELSE IF file.kind = "text" /\ "bots" \in DOMAIN file.doc
         THEN [kind |-> "Ok",
               bots |-> [id \in DOMAIN file.doc["bots"] |->
                            BotFromJson(file.doc["bots"][id])],
               file |-> file]
         ELSE [kind |-> "JsonParseError", bots |-> EmptyMap, file |-> file]

StartStep(op, r, kind) ==
    /\ ret.op = "boot"
    /\ bots' = r.bots
    /\ disk' = r.file
    /\ ret' = [op |-> op, args |-> NoView, out |-> "none", kind |-> kind,
               view |-> NoView, cause |-> r.kind]
    /\ UNCHANGED <<failures, lock, cl, start>>

Load == StartStep("state::AppState::load", load(disk), load(disk).kind)

LegacyLoad == StartStep("AppState::load", state_rs_load(disk), state_rs_load(disk).kind)

\* AppState::load(..).unwrap_or_else(|_| AppState::default()): the server runs.
server_mode == StartStep("server_mode", state_rs_load(disk), "Ok")

\* bot/state/mod.rs add_bot, once a start call has returned Ok: insert, save
\* (src/state.rs: a failed fs::write is reported as FileReadError), every
\* save error as SaveError.
StartedAddBot ==
    /\ ret.op = "AppState::add_bot" \/ (ret.op # "boot" /\ ret.kind = "Ok")
    /\ \E args \in {MinInsertArgs(Some("b")),
                    [FullInsertArgs(Some("a")) EXCEPT !.trading_fee = Some(f64_INFINITY)]},
          out \in {"ok", "write_err", "none"} :
        LET r == add_bot(bots, args, "-")
            s == [kind |-> IF out = "ok" THEN "Ok" ELSE "FileReadError",
                  file |-> fs_write(disk, to_string_pretty(r.bots), out)] IN
        /\ bots' = r.bots
        /\ UNCHANGED <<lock, cl, start>>
        /\ IF r.save
           THEN /\ out # "none"
                /\ (out # "ok") => failures < MaxSaveFailures
                /\ disk' = s.file
                /\ failures' = IF out = "ok" THEN failures ELSE failures + 1
                /\ ret' = [op |-> "AppState::add_bot", args |-> args, out |-> out,
                           kind |-> IF out = "ok" THEN r.kind ELSE "SaveError",
                           view |-> IF out = "ok" THEN r.view ELSE NoView,
                           cause |-> s.kind]
           ELSE /\ out = "none"
                /\ UNCHANGED <<disk, failures>>
                /\ ret' = [op |-> "AppState::add_bot", args |-> args, out |-> out,
                           kind |-> r.kind, view |-> r.view, cause |-> "Ok"]

NextLoad ==
    \/ Load
    \/ LegacyLoad
    \/ server_mode
    \/ StartedAddBot

SpecLoad == InitLoad /\ [][NextLoad]_vars

-----------------------------------------------------------------------------
(* The online facade's transport: RestClient::add_bot, one call per client  *)
(* at a time.  A call's record holds its position, the requests sent for    *)
(* it, how often the server handled one of them, and the answer in transit. *)

InitRemote ==
    /\ bots = EmptyMap
    /\ disk = load(FileMissing).file
    /\ ret = NoRet
    /\ failures = 0
    /\ lock = Free
    /\ start = EmptyMap
    /\ cl = [c \in Clients |->
                [pc |-> "idle", req |-> NoView, sent |-> 0, applied |-> 0,
                 http |-> NoView, resp |-> NoView]]

\* The retry loop send_request does not have: a failed send is sent again.
send_error_retry(call) ==
    IF call.sent < 2 THEN [call EXCEPT !.pc = "send"]
    ELSE [call EXCEPT !.pc = "idle",
                      !.resp = FacadeResult("ConnectionError", 0, NoView)]

\* request.send().await.map_err(|e| ApiError::ConnectionError(..)), returned
\* to the caller by `?`.
send_error(call) ==
    [call EXCEPT !.pc = "idle",
                 !.resp = FacadeResult("ConnectionError", 0, NoView)]

\* RestClient::add_bot is called.
RemoteCall(c) ==
    /\ cl[c].pc = "idle"
    /\ \E args \in {MinInsertArgs(Some("a")), FullInsertArgs(Some("b"))} :
        cl' = [cl EXCEPT ![c] = [pc |-> "send", req |-> args, sent |-> 0,
                                 applied |-> 0, http |-> NoView, resp |-> NoView]]
    /\ UNCHANGED <<bots, disk, ret, failures, lock, start>>

\* send_request: the request is built and sent.
SendRequest(c) ==
    /\ cl[c].pc = "send"
    /\ cl' = [cl EXCEPT ![c].pc = "in_flight", ![c].sent = @ + 1]
    /\ UNCHANGED <<bots, disk, ret, failures, lock, start>>

\* The server's POST /bots handler receives the request and answers.
Deliver(c) ==
    /\ cl[c].pc = "in_flight"
    /\ \E out \in Outs :
        LET r    == add_bot(bots, cl[c].req, "-")
            kind == IF r.save /\ out # "ok" THEN "SaveError" ELSE r.kind
        IN  /\ bots' = r.bots
            /\ IF r.save
               THEN /\ out \in SaveOutcomes
                    /\ (out # "ok") => failures < MaxSaveFailures
                    /\ disk' = save(disk, r.bots, out)
                    /\ failures' = IF out = "ok" THEN failures ELSE failures + 1
               ELSE /\ out = "none"
                    /\ UNCHANGED <<disk, failures>>
            /\ cl' = [cl EXCEPT ![c].pc = "answered", ![c].applied = @ + 1,
                                ![c].http = HttpResponse("add_bot", kind, r.view)]
    /\ UNCHANGED <<ret, lock, start>>

\* The connection fails, before the request arrives or before the answer does.
TransportFail(c) ==
    /\ cl[c].pc \in {"in_flight", "answered"}
    /\ cl' = [cl EXCEPT ![c].pc = "failed"]
    /\ UNCHANGED <<bots, disk, ret, failures, lock, start>>

\* The awaited send resolves and RestClient::add_bot returns.
Return(c) ==
    /\ cl[c].pc \in {"failed", "answered"}
    /\ cl' = [cl EXCEPT ![c] =
                IF cl[c].pc = "failed" THEN send_error(cl[c])
                ELSE [cl[c] EXCEPT !.pc = "idle",
                                   !.resp = process_response("BotView", cl[c].http)]]
    /\ UNCHANGED <<bots, disk, ret, failures, lock, start>>

NextRemote ==
    \E c \in Clients :
        \/ RemoteCall(c)
        \/ SendRequest(c)
        \/ Deliver(c)
        \/ TransportFail(c)
        \/ Return(c)

\* The runtime polls an awaited future that is ready: Return is weakly fair.
\* Nothing bounds the wait for the server (Client::new() sets no timeout).
SpecRemote ==
    InitRemote /\ [][NextRemote]_vars /\ \A c \in Clients : WF_vars(Return(c))

-----------------------------------------------------------------------------
(* Properties *)

\* The operations that create a bot, in every revision.
CreateBotOps == {"add_bot", "services::create_bot", "AppState::create_bot"}

\* C1: a CreateBot call whose bot_id is the id of a bot already in the
\* registry is rejected with AlreadyExists and leaves the registry (the
\* existing record, all its fields and listeners, and the number of bots) as
\* it was.  (Stated for requests that pass input validation.)
C1_CreateBotRejectsCollision ==
    [][(/\ ret'.op \in CreateBotOps
        /\ BotInsert_validate(ret'.args)
        /\ IsSome(ret'.args.bot_id)
        /\ Unwrap(ret'.args.bot_id) \in DOMAIN bots)
       => (/\ ret'.kind = "BotAlreadyExists"
           /\ bots' = bots
           /\ Cardinality(DOMAIN bots') = Cardinality(DOMAIN bots))]_vars

\* The operations of the registry that change it.
MutatingOps ==
    {"add_bot", "update_bot", "delete_bot", "add_listener", "update_listener",
     "delete_listener", "delete_listeners", "clear_bots", "clear_listeners"}

\* C2: AddListener never replaces an existing listener: if the supplied
\* listener_id is already a key of the target bot's listener map, the listener
\* stored under it is the same after the call.
C2_AddListenerNeverReplaces ==
    [][(/\ ret'.op = "add_listener"
        /\ ret'.args.bot_id \in DOMAIN bots
        /\ IsSome(ret'.args.listener_id)
        /\ Unwrap(ret'.args.listener_id) \in DOMAIN bots[ret'.args.bot_id].listeners)
       => LET b == ret'.args.bot_id
              l == Unwrap(ret'.args.listener_id)
          IN  /\ b \in DOMAIN bots'
              /\ l \in DOMAIN bots'[b].listeners
              /\ bots'[b].listeners[l] = bots[b].listeners[l]]_vars

\* C3: whenever a mutating operation has returned success, the state file
\* holds a complete document whose registry equals the registry in memory.
C3_SuccessMeansPersisted ==
    (ret.op \in MutatingOps /\ ret.kind = "Ok")
        => (load(disk).kind = "Ok" /\ load(disk).bots = bots)

\* C4: no mutating operation reports success after its state write failed.
C4_FailedWriteIsReported ==
    (ret.out \in {"config_err", "open_err", "write_err"}) => ret.kind # "Ok"

\* C5: if persistence fails during a mutating operation, the registry in
\* memory after the operation equals the registry before it.
C5_FailedSaveLeavesMemory ==
    [][(ret'.out \in {"config_err", "open_err", "write_err"}) => bots' = bots]_vars

\* C6: a save that fails never corrupts the state file: afterwards the file
\* holds the complete previous document or the complete new one, and loading
\* it succeeds.
C6_FailedSaveKeepsFileWhole ==
    [][(ret'.out \in {"config_err", "open_err", "write_err"})
       => (/\ disk' \in {disk, FileText(to_string_pretty(bots'))}
           /\ load(disk').kind = "Ok")]_vars

\* The field names the views must not disclose.
SensitiveFields == {"secret", "api_key", "api_secret", "webhook_secret", "private_key"}

\* Every key of a serialized BotView, the keys of its nested listeners included.
BotViewJsonKeys(j) ==
    DOMAIN j \cup DOMAIN j.listeners
             \cup UNION {DOMAIN j.listeners[l] : l \in DOMAIN j.listeners}

BotViewOps == {"add_bot", "get_bot", "update_bot", "delete_bot"}
ListenerViewOps == {"add_listener", "get_listener", "update_listener", "delete_listener"}

\* C7: the serialized BotView or ListenerView (or list of ListenerViews) an
\* operation has returned contains none of the sensitive field names at any
\* depth.
C7_ViewsHideSensitiveFields ==
    (ret.kind = "Ok") =>
        CASE ret.op \in BotViewOps ->
                 BotViewJsonKeys(BotViewToJson(ret.view)) \cap SensitiveFields = {}
          [] ret.op \in ListenerViewOps ->
                 DOMAIN ListenerViewToJson(ret.view) \cap SensitiveFields = {}
          [] ret.op = "delete_listeners" ->
                 \A v \in ret.view.list :
                     DOMAIN ListenerViewToJson(v) \cap SensitiveFields = {}
          [] OTHER -> TRUE

\* The scalar fields of a Bot besides bot_id: the String ones and the Option
\* ones.
RequiredFields == {"name", "exchange"}
OptionalFields == {"api_key", "api_secret", "rest_endpoint", "rpc_endpoint",
                   "webhook_secret", "trading_fee", "private_key",
                   "contract_address"}

\* The operations that update a bot, in every revision.
UpdateBotOps == {"update_bot", "AppState::args"}

\* C8: a successful UpdateBot changes exactly the fields the update supplies:
\* a supplied field holds the supplied value afterwards, an absent one holds
\* the value it had, and no field that was set becomes unset.
C8_UpdateChangesExactlySupplied ==
    [][(ret'.op \in UpdateBotOps /\ ret'.kind = "Ok")
       => LET a   == ret'.args
              old == bots[a.bot_id]
              new == bots'[a.bot_id]
          IN  /\ \A f \in RequiredFields :
                     new[f] = IF IsSome(a[f]) THEN Unwrap(a[f]) ELSE old[f]
              /\ \A f \in OptionalFields :
                     /\ new[f] = IF IsSome(a[f]) THEN a[f] ELSE old[f]
                     /\ IsSome(old[f]) => IsSome(new[f])
              /\ new.bot_id = old.bot_id
              /\ (DOMAIN a.listeners = {}) => new.listeners = old.listeners]_vars

\* The stages in which a handler reads or writes the registry or its file.
AccessStages == {"call", "insert", "save"}

Serve(m, d, req, out) ==
    LET r == CASE req.op = "add_bot"    -> add_bot(m, req.args, "-")
               [] req.op = "delete_bot" -> delete_bot(m, req.args)
               [] OTHER                 -> list_bots(m, req.args)
        kind == IF r.save /\ out = "ok" THEN r.kind
                ELSE IF r.save /\ out \in SaveOutcomes THEN "SaveError"
                ELSE IF ~r.save /\ out = "none" THEN r.kind
                ELSE "Unreachable"
    IN  [bots |-> r.bots,
         disk |-> IF r.save THEN save(d, r.bots, out) ELSE d,
         resp |-> Response(req, kind, r.view)]

\* The requests served one after the other in the given order.
RECURSIVE Serial(_, _, _)
Serial(order, m, d) ==
    IF order = << >> THEN [bots |-> m, disk |-> d, resp |-> EmptyMap]
    ELSE LET c    == Head(order)
             h    == Serve(m, d, cl[c].req, cl[c].out)
             rest == Serial(Tail(order), h.bots, h.disk)
         IN  [bots |-> rest.bots, disk |-> rest.disk,
              resp |-> Insert(rest.resp, c, h.resp)]

\* A response equals the serial one; a list is compared as the collection of
\* its elements, its order being that of an unordered map.
SameResponse(req, got, want) ==
    /\ got.status = want.status
    /\ got.kind = want.kind
    /\ IF req.op = "get_bots" /\ got.kind = "Ok"
       THEN /\ {got.data[i] : i \in DOMAIN got.data} = want.data.list
            /\ Len(got.data) = Cardinality(want.data.list)
       ELSE got.data = want.data

AllDone == \A c \in Clients : cl[c].pc = "done"

\* The final registry, the final file and every response are those of the
\* requests served one at a time in some order.
Linearizable ==
    \E order \in SeqsOf(Clients) :
        LET s == Serial(order, start, FileText(to_string_pretty(start))) IN
        /\ s.bots = bots
        /\ s.disk = disk
        /\ \A c \in Clients : SameResponse(cl[c].req, cl[c].resp, s.resp[c])

\* Two different requests that both create a bot with the same id.
SameIdCreates(c, d) ==
    /\ c # d
    /\ cl[c].req.op = "add_bot"
    /\ cl[d].req.op = "add_bot"
    /\ cl[c].req.args.bot_id = cl[d].req.args.bot_id

FacadeOps == {"cli::add_bot", "cli::get_bot", "cli::delete_bot"}

\* An online result is the offline one: the same thing shown on success, and
\* on failure an error of the same status.
SameOutcome(d, r) ==
    IF d.kind = "Ok"
    THEN r.kind = "Ok" /\ r.shown = d.shown
    ELSE r.kind = "HttpError" /\ r.status = status_code(d.kind)

\* C11: identical arguments on identical registry state give the same view
\* and the same error kind (status/category) through the direct facade and
\* through the remote facade (no transport failure occurring), both for
\* RestClient's typed result and for what the online command line displays.
C11_FacadesAgree ==
    ret.op \in FacadeOps =>
        /\ SameOutcome(ret.direct, ret.rest)
        /\ SameOutcome(ret.direct, ret.remote)

\* C12: CreateBot with an empty name or an empty exchange is rejected with
\* ValidationError, and no bot with an empty name or exchange is in the
\* registry as the result of CreateBot.
C12_CreateBotValidates ==
    /\ (/\ ret.op = "cli::add_bot"
        /\ (ret.args.name = "" \/ ret.args.exchange = ""))
       => ret.kind = "ValidationError"
    /\ \A id \in DOMAIN bots : bots[id].name # "" /\ bots[id].exchange # ""

\* The fields a BotListArgs filter has a predicate for.
FilterFields ==
    {"bot_id", "name", "exchange", "api_key", "rest_endpoint", "rpc_endpoint",
     "trading_fee", "private_key", "contract_address"}

\* The value of a bot's field as a filter states it.
FieldAsOption(bot, k) ==
    IF k \in {"bot_id", "name", "exchange"} THEN Some(bot[k]) ELSE bot[k]

\* The bots of registry m for which every predicate the filter supplies
\* equals the bot's field; without a filter, all of them.
BotsMatching(m, filter) ==
    {id \in DOMAIN m :
        IsSome(filter) =>
            \A k \in FilterFields :
                IsSome(Unwrap(filter)[k]) => FieldAsOption(m[id], k) = Unwrap(filter)[k]}

\* C13: ListBots(filter) returns exactly the bots for which every supplied
\* predicate equals the corresponding field: none omitted, none added, an
\* absent predicate constraining nothing.
C13_ListBotsExactlyMatching ==
    ret.op = "list_bots" =>
        LET want == BotsMatching(bots, ret.args) IN
        /\ ret.kind = "Ok" => ret.view.list = {BotViewFrom(bots[id]) : id \in want}
        /\ ret.kind # "Ok" => want = {}

\* C13 witness: with bot a on exchange x1 and bot b on exchange x2, the
\* filter {exchange: x1} has returned exactly a.
C13_Witness ==
    /\ ret.op = "list_bots"
    /\ ret.args = Some([NoFilter EXCEPT !.exchange = Some("x1")])
    /\ DOMAIN bots = {"a", "b"}
    /\ bots["a"].exchange = "x1"
    /\ bots["b"].exchange = "x2"
    /\ ret.kind = "Ok"
    /\ ret.view.list = {BotViewFrom(bots["a"])}

\* The operations that list bots, in every revision.
ListBotsOps == {"list_bots", "AppState::list_bots"}

\* C14: ListBots reports NotFound, never a successful empty list, whenever no
\* bot matches the filter, the registry holding no bots at all included.
C14_ListBotsEmptyIsNotFound ==
    (ret.op \in ListBotsOps /\ BotsMatching(bots, ret.args) = {})
        => ret.kind = "NotFound"

\* The handlers of GET /bots, in every revision.
GetBotsOps == {"bot::api::get_bots", "api::get_bots"}

\* C15: GET /bots answers with status 200 and an empty list when no bot
\* matches the request, the registry holding no bots included.
C15_GetBotsEmptyIs200 ==
    (ret.op \in GetBotsOps /\ BotsMatching(bots, ret.args) = {})
        => (ret.view.status = 200 /\ ret.view.data = << >>)

\* The kinds of error the registry has for "does not exist".
NotFoundKinds == {"NotFound", "BotNotFound", "ListenerNotFound"}

\* C16: DeleteBot removes the bot together with all of its listeners in one
\* step: after it succeeds the bot is gone, GetListener for every listener it
\* owned reports NotFound and the other bots are as they were; and whatever
\* the call's outcome, no bot is left behind with part of its listeners
\* removed.
C16_DeleteBotCascades ==
    [][ret'.op = "delete_bot" =>
          /\ \A id \in DOMAIN bots : id \notin DOMAIN bots' \/ bots'[id] = bots[id]
          /\ ret'.kind = "Ok" =>
                 LET id == ret'.args.bot_id IN
                 /\ id \in DOMAIN bots
                 /\ DOMAIN bots' = DOMAIN bots \ {id}
                 /\ \A l \in DOMAIN bots[id].listeners :
                        get_listener(bots', [bot_id |-> id, listener_id |-> l]).kind
                            \in NotFoundKinds]_vars

\* C16 witness: a bot with two listeners has been deleted, and GetListener
\* on either of them now reports NotFound.
C16_Witness ==
    /\ ret.op = "delete_bot"
    /\ ret.kind = "Ok"
    /\ Cardinality(DOMAIN ret.view.listeners) = 2
    /\ ret.args.bot_id \notin DOMAIN bots
    /\ \A l \in DOMAIN ret.view.listeners :
           get_listener(bots, [bot_id |-> ret.args.bot_id, listener_id |-> l]).kind
               \in NotFoundKinds

ListListenersOps == {"list_listeners", "api::get_listeners"}

\* The listeners of bot id in registry m that the filter a selects.
ListenersMatching(m, a) ==
    {l \in DOMAIN m[a.bot_id].listeners :
        /\ IsSome(a.listener_id) => l = Unwrap(a.listener_id)
        /\ IsSome(a.service) => m[a.bot_id].listeners[l].service = Unwrap(a.service)}

\* C18: ListListeners reports ValidationError when bot_id is empty (or
\* blank), otherwise NotFound when the bot does not exist, otherwise NotFound
\* when no listener of the bot matches the filter, and otherwise returns
\* exactly the listeners of that bot matching every supplied predicate.
C18_ListListenersOutcomes ==
    ret.op \in ListListenersOps =>
        LET a == ret.args IN
        IF trim(a.bot_id) = "" THEN ret.kind = "ValidationError"
        ELSE IF a.bot_id \notin DOMAIN bots THEN ret.kind \in NotFoundKinds
        ELSE IF ListenersMatching(bots, a) = {} THEN ret.kind \in NotFoundKinds
        ELSE /\ ret.kind = "Ok"
             /\ IF ret.op = "list_listeners"
                THEN ret.view.list =
                         {ListenerViewFrom(a.bot_id, l, bots[a.bot_id].listeners[l]) :
                             l \in ListenersMatching(bots, a)}
                ELSE DOMAIN ret.view.data = ListenersMatching(bots, a)

\* The operations addressing one listener of one bot.
OneListenerOps == {"get_listener", "update_listener"}

\* C19: GetListener and UpdateListener report an error of kind NotFound both
\* when the addressed bot is absent and when the bot exists but the addressed
\* listener is absent; they succeed only when both exist; and a call that
\* fails changes neither the registry nor the state file.
C19_OneListenerNotFoundAndFrame ==
    [][ret'.op \in OneListenerOps =>
          LET a    == ret'.args
              both == /\ a.bot_id \in DOMAIN bots
                      /\ a.listener_id \in DOMAIN bots[a.bot_id].listeners
          IN  /\ ~both => ret'.kind \in NotFoundKinds
              /\ ret'.kind = "Ok" => both
              /\ ret'.kind # "Ok" => (bots' = bots /\ disk' = disk)]_vars

\* The operations that update a listener, in every revision.
UpdateListenerOps == {"update_listener", "services::update_listener"}

\* C20: UpdateListener changes only the supplied fields (service, secret,
\* msg) of the one addressed listener inside the one addressed bot: that
\* listener's unsupplied fields, every other listener of the bot, and every
\* listener of every other bot, one carrying the same listener_id included,
\* are unchanged.
C20_UpdateListenerFrame ==
    [][(ret'.op \in UpdateListenerOps /\ ret'.kind = "Ok") =>
          LET a == ret'.args IN
          /\ DOMAIN bots' = DOMAIN bots
          /\ \A id \in DOMAIN bots :
                 /\ DOMAIN bots'[id].listeners = DOMAIN bots[id].listeners
                 /\ \A l \in DOMAIN bots[id].listeners :
                        LET old == bots[id].listeners[l]
                            new == bots'[id].listeners[l]
                        IN  IF id = a.bot_id /\ l = a.listener_id
                            THEN \A f \in {"service", "secret", "msg"} :
                                     new[f] = IF IsSome(a[f]) THEN Unwrap(a[f])
                                              ELSE old[f]
                            ELSE new = old]_vars

\* C21: AddListener with an empty service is rejected with ValidationError,
\* and no listener with an empty service is stored as the result of
\* AddListener.
C21_AddListenerValidatesService ==
    /\ (ret.op = "add_listener" /\ ret.args.service = "")
           => ret.kind = "ValidationError"
    /\ \A id \in DOMAIN bots :
           \A l \in DOMAIN bots[id].listeners : bots[id].listeners[l].service # ""

\* C22: AddListener called without msg stores a non-empty default msg, the
\* template the lookup table has for the service (the generic one for an
\* unknown service), never an empty msg.
C22_AddListenerDefaultMsg ==
    (ret.op = "add_listener" /\ ret.kind = "Ok" /\ ret.args.msg = None) =>
        LET stored == bots[ret.args.bot_id].listeners[ret.view.listener_id] IN
        /\ stored.msg # ""
        /\ stored.msg = generate_message(stored.service, ret.args.bot_id)

\* The administrative bulk resets.
ClearOps == {"clear_bots", "clear_listeners"}

\* C23: ClearBots and ClearListeners always return success, on an empty
\* registry too, and after either returns the registry is cleared and the
\* state file holds exactly the cleared in-memory registry.
C23_ClearSucceedsAndPersists ==
    ret.op \in ClearOps =>
        /\ ret.kind = "Ok"
        /\ ret.op = "clear_bots" => bots = EmptyMap
        /\ ret.op = "clear_listeners" =>
               \A id \in DOMAIN bots : bots[id].listeners = EmptyMap
        /\ disk = FileText(to_string_pretty(bots))

\* C24: load on a path where no file exists returns an empty registry,
\* leaves a state file at that path, and is not reported as an error.
LoadOps == {"state::AppState::load", "AppState::load"}

C24_LoadMissingInitialises ==
    [][(ret.op = "boot" /\ ret'.op \in LoadOps /\ disk = FileMissing)
        => (ret'.kind = "Ok" /\ bots' = EmptyMap /\ disk'.kind = "text")]_vars

\* C25: when the state file holds invalid data, loading fails with a parse
\* error, the system never proceeds with an empty registry in its place, and
\* the unreadable file is never overwritten.
Started == ret.op = "AppState::add_bot" \/ (ret.op # "boot" /\ ret.kind = "Ok")

C25_InvalidFileIsFatal ==
    start.kind = "invalid"
        => /\ ~Started
           /\ disk = FilePartial
           /\ (ret.op # "boot" => ret.kind = "JsonParseError")

\* C26: a save failure reaches the caller of the mutating operation with the
\* kind AppState::save gave it.
C26_SaveFailureKeepsKind ==
    [][(ret'.op = "AppState::add_bot" /\ ret'.out = "write_err")
        => ret'.kind = ret'.cause]_vars

\* C27: loading the file that save wrote for a registry R gives R back (same
\* bot ids, listener ids, field values), and saving again rewrites the same
\* file.
C27_SaveLoadSaveRoundTrip ==
    [][(ret.op = "boot" /\ ret'.op = "state::AppState::load" /\ start.kind = "saved")
        => /\ ret'.kind = "Ok"
           /\ bots' = start.bots
           /\ save(disk', bots', "ok") = disk]_vars

\* C28: the HTTP layer answers validation errors with 400, not-found with
\* 404, an existing bot id with 409, storage and internal errors with 500,
\* connection failures and unexpected responses with 502 and timeouts with
\* 504; every error of one of these kinds receives that code.
ErrorResponseOps == {"error_response", "server_error_response"}

StatusOfKind(kind) ==
    CASE kind \in {"InvalidInput", "ValidationError", "ArgumentsRequired",
                   "BotIdRequired"}                                  -> {400}
      [] kind \in NotFoundKinds                                     -> {404}
      [] kind = "BotAlreadyExists"                                  -> {409}
      [] kind \in {"SaveError", "FileReadError", "FileWriteError",
                   "InternalServerError", "LockError", "InvalidState"} -> {500}
      [] kind \in {"ConnectionError", "UnexpectedResponse"}         -> {502}
      [] kind = "TimeoutError"                                      -> {504}
      [] OTHER                                                      -> 100..999

C28_StatusPerKind ==
    ret.op \in ErrorResponseOps
        => /\ ret.status \in StatusOfKind(ret.kind)
           /\ (ret.op = "server_error_response"
                 /\ ret.args.kind \in {"FileReadError", "FileWriteError",
                                       "LockError", "InvalidState"})
              => ret.status = 500

C28_Witness ==
    /\ ret.op = "error_response"
    /\ ret.kind = "TimeoutError"
    /\ ret.status = 504

\* C28 as stated: ValidationError, NotFound, AlreadyExists, PersistenceError,
\* TransportError, InternalError answer 400, 404, 409, 500, 502, 504.
C28_StatusRespectively ==
    ret.op \in ErrorResponseOps
        => /\ ret.kind \in {"InvalidInput", "ValidationError", "ArgumentsRequired",
                            "BotIdRequired"} => ret.status = 400
           /\ ret.kind \in NotFoundKinds => ret.status = 404
           /\ ret.kind = "BotAlreadyExists" => ret.status = 409
           /\ ret.kind \in {"SaveError", "FileReadError", "FileWriteError"}
                => ret.status = 500
           /\ ret.kind \in {"ConnectionError", "TimeoutError", "UnexpectedResponse"}
                => ret.status = 502
           /\ ret.kind \in {"InternalServerError", "LockError", "InvalidState"}
                => ret.status = 504

\* C29: POST /bots answers 201 with the created BotView on success, and 400
\* both for invalid input and for a bot_id that already exists, leaving the
\* registry unchanged in these failure cases.
C29_PostBotsStatus ==
    [][(ret'.op = "POST /bots")
        => LET d == ret'.args IN
           IF \/ ~d.ok
              \/ d.args.name = "" \/ d.args.exchange = ""
              \/ (IsSome(d.args.bot_id) /\ Unwrap(d.args.bot_id) \in DOMAIN bots)
           THEN ret'.status = 400 /\ bots' = bots
           ELSE ret'.kind = "Ok"
                => /\ ret'.status = 201
                   /\ ret'.body = create_api_response(JsonObject(BotViewToJson(ret'.view)))
                   /\ ret'.view.bot_id \in DOMAIN bots' \ DOMAIN bots]_vars

\* C30: a remote-facade call sends exactly one HTTP request; when the request
\* fails at transport level the call's next step returns a transport error to
\* the caller without sending again, so the server never handles a call's
\* request twice.
C30_OneRequestNoRetry ==
    /\ [](\A c \in Clients :
            /\ cl[c].sent <= 1
            /\ cl[c].applied <= cl[c].sent
            /\ (cl[c].pc = "idle" /\ cl[c].resp # NoView) => cl[c].sent = 1)
    /\ [][\A c \in Clients :
            (cl[c].pc = "failed" /\ cl'[c] # cl[c])
                => /\ cl'[c].pc = "idle"
                   /\ cl'[c].resp = FacadeResult("ConnectionError", 0, NoView)
                   /\ cl'[c].sent = cl[c].sent]_vars
    /\ \A c \in Clients :
            (cl[c].pc = "failed")
                ~> (/\ cl[c].pc = "idle"
                    /\ cl[c].resp = FacadeResult("ConnectionError", 0, NoView))

\* The answer was lost after the server stored the bot: the caller holds a
\* transport error, one request was sent and handled once.
C30_Witness ==
    \E c \in Clients :
        /\ cl[c].pc = "idle"
        /\ cl[c].resp # NoView
        /\ cl[c].resp.kind = "ConnectionError"
        /\ cl[c].sent = 1
        /\ cl[c].applied = 1
        /\ cl[c].req.bot_id = Some("b")
        /\ "b" \in DOMAIN bots

\* C34: with 1-based pages, for page >= 1 and limit >= 1 a paginated list
\* is exactly the items at positions (page-1)*limit .. page*limit-1 of the
\* full result (fewer on the last page, none beyond it).
PagedOps == {"bot::api::get_bots?", "api::get_bots?"}

EffectivePage(a) == IF IsSome(a.page) THEN Unwrap(a.page) ELSE 1

EffectiveLimit(op, a) ==
    IF IsSome(a.limit) THEN Unwrap(a.limit)
    ELSE IF op = "api::get_bots?" THEN Len(a.all) ELSE DefaultLimit

PageOf(all, pg, lim) ==
    LET lo == (pg - 1) * lim
        hi == IF pg * lim < Len(all) THEN pg * lim ELSE Len(all)
    IN  [i \in 1..(IF hi > lo THEN hi - lo ELSE 0) |-> all[lo + i]]

C35_ZeroPageOrLimitRejected ==
    (/\ ret.op \in PagedOps
     /\ (ret.args.page = Some(0) \/ ret.args.limit = Some(0)))
        => ret.kind = "InvalidInput"


\* C31: every request that was received is eventually answered, with a result
\* or an error; a request that waits for the lock eventually gets it; and a
\* handler that has ended, on whatever path, holds no lock.
C31_EveryRequestReturns ==
    /\ \A c \in Clients : (cl[c].pc = "acquire") ~> (cl[c].pc = "call")
    /\ \A c \in Clients : (cl[c].pc # "idle") ~> (cl[c].pc = "done")
    /\ [](\A c \in Clients : cl[c].pc \in {"done", "panicked"} => lock # c)

\* The status a handler answers with: that of its success response, or the
\* one its error maps to.
StatusOf(r) == IF r.kind = "Ok" THEN r.view.status ELSE status_code(r.kind)

\* C32: while no state write fails, the scenario's answers are, in order, 201
\* with a generated bot_id, 200 with a generated listener_id and the default
\* msg of the service, exactly one listener, 200, and 404.
C32_ScenarioAnswers ==
    failures = 0 =>
        /\ ret.op = "POST /bots" =>
               /\ ret.status = 201
               /\ ret.view.bot_id \in BotIds \ DOMAIN start
        /\ ret.op = "POST /bots/{bot_id}/listeners" =>
               /\ StatusOf(ret) = 200
               /\ ret.view.data.listener_id \in ListenerIds
               /\ ret.view.data.msg = Some(generate_message("tv", ret.args.bot_id))
        /\ ret.op = "GET /bots/{bot_id}/listeners" =>
               /\ StatusOf(ret) = 200
               /\ Cardinality(ret.view.data) = 1
        /\ ret.op = "DELETE /bots/{bot_id}" => StatusOf(ret) = 200
        /\ ret.op = "GET /bots/{bot_id}" => StatusOf(ret) = 404

\* C33: every bot is stored under its own bot_id, and an update leaves the
\* bot_id of the bot it updates as it was.
C33_BotIdImmutable ==
    [][/\ \A k \in DOMAIN bots' : bots'[k].bot_id = k
       /\ (ret'.op \in UpdateBotOps \cup {"services::update_bot"} /\ ret'.kind = "Ok")
          => bots'[ret'.args.bot_id].bot_id = bots[ret'.args.bot_id].bot_id]_vars

\* C36: an operation that returns ValidationError, NotFound or AlreadyExists
\* has left the registry and the state file as they were and has not written
\* the file.
C36_ErrorLeavesStateAlone ==
    [][ret'.kind \in NotFoundKinds \cup {"ValidationError", "BotAlreadyExists"}
       => /\ bots' = bots
          /\ disk' = disk
          /\ ret'.out = "none"]_vars

\* C37: a call of UpdateBot leaves the listener map of the bot it names as
\* it was.
C37_UpdateBotKeepsListeners ==
    [][(ret'.op \in UpdateBotOps /\ ret'.args.bot_id \in DOMAIN bots)
       => /\ ret'.args.bot_id \in DOMAIN bots'
          /\ bots'[ret'.args.bot_id].listeners = bots[ret'.args.bot_id].listeners]_vars

\* The listeners an operation returns, as views.
ReturnedListeners(r) ==
    IF r.kind # "Ok" \/ r.view = NoView THEN {}
    ELSE IF "listener_id" \in DOMAIN r.view THEN {r.view}
    ELSE IF "list" \in DOMAIN r.view THEN r.view.list
    ELSE IF "listeners" \in DOMAIN r.view
    THEN {ListenerViewFrom(r.view.bot_id, l, r.view.listeners[l]) :
            l \in DOMAIN r.view.listeners}
    ELSE {}

\* The registry m holds the listener of the view v under the bot v names.
HeldIn(m, v) ==
    /\ v.bot_id \in DOMAIN m
    /\ v.listener_id \in DOMAIN m[v.bot_id].listeners
    /\ ListenerViewFrom(v.bot_id, v.listener_id,
                        m[v.bot_id].listeners[v.listener_id]) = v

\* C38: a bot that comes into the registry, under a new id or under the id of
\* a bot deleted or cleared before, has no listener; DeleteBot and ClearBots
\* take the bot out with its listeners; and every listener an operation
\* returns is held, before or after the call, by the bot it is returned for.
C38_ListenerNeverOutlivesBot ==
    [][/\ \A k \in DOMAIN bots' \ DOMAIN bots : bots'[k].listeners = EmptyMap
       /\ (ret'.op = "delete_bot" /\ ret'.args.bot_id \in DOMAIN bots)
          => ret'.args.bot_id \notin DOMAIN bots'
       /\ ret'.op = "clear_bots" => bots' = EmptyMap
       /\ \A v \in ReturnedListeners(ret') : HeldIn(bots, v) \/ HeldIn(bots', v)]_vars

\* C38 witness: bot b has just been created and has no listener while bot a
\* holds its own.
C38_Witness ==
    /\ ret.op = "add_bot"
    /\ ret.kind = "Ok"
    /\ ret.view.bot_id = "b"
    /\ bots["b"].listeners = EmptyMap
    /\ "a" \in DOMAIN bots
    /\ bots["a"].listeners # EmptyMap

\* C39: the bots GetBot finds are those created with success and not since
\* deleted or cleared with success.  Step by step: a successful CreateBot
\* adds its bot, a successful DeleteBot or ClearBots removes theirs, no other
\* call and no call that returns an error changes which bots exist, and
\* GetBot succeeds exactly for the bots that exist.
C39_GetBotFollowsSuccesses ==
    [][/\ ret'.kind # "Ok" => DOMAIN bots' = DOMAIN bots
       /\ ret'.kind = "Ok" =>
              DOMAIN bots' =
                  CASE ret'.op = "add_bot"    -> DOMAIN bots \cup {ret'.view.bot_id}
                    [] ret'.op = "delete_bot" -> DOMAIN bots \ {ret'.args.bot_id}
                    [] ret'.op = "clear_bots" -> {}
                    [] OTHER                  -> DOMAIN bots
       /\ ret'.op = "get_bot" =>
              (ret'.kind = "Ok" <=> ret'.args.bot_id \in DOMAIN bots)]_vars

\* The error kinds of the registry that the claim names, in the code's terms.
RegistryErrorKinds == NotFoundKinds \cup {"ValidationError", "InvalidInput", "BotAlreadyExists"}

\* C40: a remote call that ended in a failure of the transport (the request
\* could not be sent or timed out, or the answer could not be parsed) reports
\* a kind that is no registry error kind and whose status is the status of
\* no registry error kind.
C40_TransportErrorsDistinct ==
    \A c \in Clients :
        (cl[c].resp # NoView /\ cl[c].resp.kind \in {"ConnectionError", "TimeoutError",
                                                     "ParseError"})
        => /\ cl[c].resp.kind \notin RegistryErrorKinds
           /\ ApiError_status_code(cl[c].resp.kind)
                  \notin {ApiError_status_code(k) : k \in RegistryErrorKinds}
====
